---- MODULE Spec2Model ----
(***************************************************************************)
(* OpenFoodFacts-DB: the record transformer, the bulk loader (import.js),  *)
(* the delta synchronizer (update.js), the index rebuild (rebuild-fts.js), *)
(* search (database.js) and the SQLite store they work on (products, meta, *)
(* and the external-content FTS5 index products_fts).                      *)
(*                                                                         *)
(* Strings are sequences of one-character strings, so that joining,        *)
(* suffix tests, the filename pattern and decimal conversion are computed  *)
(* as the code computes them.  JavaScript values are tagged records.       *)
(***************************************************************************)
EXTENDS Integers, Sequences, FiniteSets, TLC

(***************************************************************************)
(* JavaScript values                                                       *)
(***************************************************************************)
Undefined == [t |-> "undefined"]
Null == [t |-> "null"]
Str(s) == [t |-> "string", s |-> s]
Num(n) == [t |-> "number", n |-> n]
Arr(a) == [t |-> "array", a |-> a]
Bool(b) == [t |-> "boolean", b |-> b]

\* ToBoolean: undefined, null, "" and 0 are falsy.
Truthy(v) ==
  CASE v.t = "undefined" -> FALSE
    [] v.t = "null" -> FALSE
    [] v.t = "string" -> v.s # <<>>
    [] v.t = "number" -> v.n # 0
    [] v.t = "boolean" -> v.b
    [] OTHER -> TRUE

\* `x || null`
OrNull(v) == IF Truthy(v) THEN v ELSE Null

\* `x != null` (loose inequality: false for null and for undefined)
NotNullish(v) == v.t \notin {"undefined", "null"}

\* The separator of Array.prototype.join(' ').
SPACE == <<" ">>

RECURSIVE JoinStrings(_)
\* [s1, s2, ...].join(' ') over strings
JoinStrings(a) ==
  IF a = <<>> THEN <<>>
  ELSE IF Len(a) = 1 THEN a[1]
  ELSE a[1] \o SPACE \o JoinStrings(Tail(a))

\* `tags?.join(' ')`: undefined when tags is null or undefined
OptionalJoin(v) == IF NotNullish(v) THEN Str(JoinStrings(v.a)) ELSE Undefined

\* `tags?.join(' ')` throws a TypeError when tags is neither null, undefined
\* nor an array: the value has no join method to call.
joinThrows(v) == NotNullish(v) /\ v.t # "array"

RECURSIVE FilterTruthy(_)
\* parts.filter(Boolean)
FilterTruthy(parts) ==
  IF parts = <<>> THEN <<>>
  ELSE IF Truthy(parts[1]) THEN <<parts[1]>> \o FilterTruthy(Tail(parts))
  ELSE FilterTruthy(Tail(parts))

\* The strings of a sequence of string values.
StringsOf(vals) == [i \in 1..Len(vals) |-> vals[i].s]

(***************************************************************************)
(* Source lines.  A line is the empty string, text that is not JSON, the   *)
(* JSON text `null`, or the JSON text of an object p.                      *)
(***************************************************************************)
EmptyLine == [kind |-> "empty"]
MalformedLine == [kind |-> "malformed"]
NullLine == [kind |-> "null"]
ScalarLine == [kind |-> "scalar"]
JsonLine(p) == [kind |-> "object", p |-> p]

\* An object with none of the fields the transformer reads.
NoNutriments ==
  [energy_kcal_100g |-> Undefined, fat_100g |-> Undefined,
   saturated_fat_100g |-> Undefined, carbohydrates_100g |-> Undefined,
   sugars_100g |-> Undefined, proteins_100g |-> Undefined,
   salt_100g |-> Undefined, fiber_100g |-> Undefined]

NoFields ==
  [code |-> Undefined, product_name |-> Undefined, brands |-> Undefined,
   categories |-> Undefined, countries |-> Undefined,
   categories_tags |-> Undefined, labels_tags |-> Undefined,
   hasNutriments |-> FALSE, nutriments |-> NoNutriments,
   nutriscore_grade |-> Undefined, nova_group |-> Undefined,
   ecoscore_grade |-> Undefined, completeness |-> Undefined,
   last_modified_t |-> Undefined]

\* JSON.parse(line): throws a SyntaxError on text that is not JSON.  The JSON
\* text of a number or of a string parses to a value with no properties.
JSONParse(line) ==
  CASE line.kind = "object" -> [ok |-> TRUE, isNull |-> FALSE, p |-> line.p]
    [] line.kind = "scalar" -> [ok |-> TRUE, isNull |-> FALSE, p |-> NoFields]
    [] line.kind = "null" -> [ok |-> TRUE, isNull |-> TRUE]
    [] OTHER -> [ok |-> FALSE]

(***************************************************************************)
(* transformer.js                                                          *)
(***************************************************************************)
\* completeness is kept in tenths: 0.8 is 8 and 1.0 is 10.
COMPLETENESS_THRESHOLD == 8
COMPLETENESS_FULL == 10

\* `p.nutriments || {}`
Nutriments(p) == IF p.hasNutriments THEN p.nutriments ELSE NoNutriments

hasMacros(p) ==
  /\ NotNullish(Nutriments(p).energy_kcal_100g)
  /\ NotNullish(Nutriments(p).fat_100g)
  /\ NotNullish(Nutriments(p).carbohydrates_100g)
  /\ NotNullish(Nutriments(p).proteins_100g)

isComplete(p) ==
  /\ hasMacros(p)
  /\ NotNullish(p.completeness)
  /\ p.completeness.n > COMPLETENESS_THRESHOLD

\* The parts with the code before the brands.
searchTextPartsCodeSecond(p) ==
  << p.product_name, p.code, p.brands,
     OptionalJoin(p.categories_tags), OptionalJoin(p.labels_tags) >>

searchTextParts(p) ==
  << p.product_name, p.brands, p.code,
     OptionalJoin(p.categories_tags), OptionalJoin(p.labels_tags) >>

search_text(p) == JoinStrings(StringsOf(FilterTruthy(searchTextParts(p))))

productData(p, line) ==
  [id |-> p.code,
   code |-> p.code,
   product_name |-> OrNull(p.product_name),
   brands |-> OrNull(p.brands),
   categories |-> OrNull(p.categories),
   countries |-> OrNull(p.countries),
   energy_kcal |-> OrNull(Nutriments(p).energy_kcal_100g),
   fat_100g |-> OrNull(Nutriments(p).fat_100g),
   saturated_fat_100g |-> OrNull(Nutriments(p).saturated_fat_100g),
   carbohydrates_100g |-> OrNull(Nutriments(p).carbohydrates_100g),
   sugars_100g |-> OrNull(Nutriments(p).sugars_100g),
   proteins_100g |-> OrNull(Nutriments(p).proteins_100g),
   salt_100g |-> OrNull(Nutriments(p).salt_100g),
   fiber_100g |-> OrNull(Nutriments(p).fiber_100g),
   nutriscore_grade |-> OrNull(p.nutriscore_grade),
   nova_group |-> OrNull(p.nova_group),
   ecoscore_grade |-> OrNull(p.ecoscore_grade),
   completeness |-> IF isComplete(p) THEN Num(COMPLETENESS_FULL)
                    ELSE IF Truthy(p.completeness) THEN p.completeness
                    ELSE Num(0),
   last_modified_t |-> OrNull(p.last_modified_t),
   raw_data |-> line,
   search_text |-> Str(search_text(p))]

\* The keys of the object transformProduct returns.
ProductKeys == DOMAIN productData(NoFields, EmptyLine)

\* An exception leaves the block.
Thrown == [t |-> "thrown"]

\* A validation that looks at the code only.
hasCode(p) == Truthy(p.code)

\* Basic validation: the negation of `!p.code || !p.product_name`
hasCodeAndName(p) == Truthy(p.code) /\ Truthy(p.product_name)

\* The try block: JSON.parse throws on malformed text, `p.code` throws on
\* null, and the two optional joins throw on a value without join.
tryBlock(line) ==
  LET r == JSONParse(line) IN
    IF ~r.ok THEN Thrown
    ELSE IF r.isNull THEN Thrown
    ELSE IF ~hasCodeAndName(r.p) THEN Null
    ELSE IF joinThrows(r.p.categories_tags) \/ joinThrows(r.p.labels_tags) THEN Thrown
    ELSE productData(r.p, line)

\* The block without a catch: the exception reaches the caller.
uncaught(v) == v

\* catch (error) { return null; }
caught(v) == IF v = Thrown THEN Null ELSE v

\* transformProduct(line): a product object, or null (skip).
transformProduct(line) ==
  IF line.kind = "empty" THEN Null ELSE caught(tryBlock(line))

(***************************************************************************)
(* Decimal strings: parseInt(s, 10) and Number.prototype.toString()        *)
(***************************************************************************)
Digits == {"0", "1", "2", "3", "4", "5", "6", "7", "8", "9"}

DigitValue(c) ==
  CASE c = "0" -> 0 [] c = "1" -> 1 [] c = "2" -> 2 [] c = "3" -> 3
    [] c = "4" -> 4 [] c = "5" -> 5 [] c = "6" -> 6 [] c = "7" -> 7
    [] c = "8" -> 8 [] c = "9" -> 9

DigitChar(n) ==
  CASE n = 0 -> "0" [] n = 1 -> "1" [] n = 2 -> "2" [] n = 3 -> "3"
    [] n = 4 -> "4" [] n = 5 -> "5" [] n = 6 -> "6" [] n = 7 -> "7"
    [] n = 8 -> "8" [] n = 9 -> "9"

\* NaN, the result of parseInt on a string that starts with no digit.
NaN == -1

RECURSIVE DecimalValue(_)
DecimalValue(s) ==
  IF s = <<>> THEN 0
  ELSE 10 * DecimalValue(SubSeq(s, 1, Len(s) - 1)) + DigitValue(s[Len(s)])

\* The longest prefix of s made of digits.
LeadingDigits(s) ==
  LET k == CHOOSE k \in 0..Len(s) :
             /\ \A i \in 1..k : s[i] \in Digits
             /\ (k = Len(s) \/ s[k + 1] \notin Digits)
  IN SubSeq(s, 1, k)

\* parseInt(s, 10) for unsigned text: the digits s starts with, else NaN.
parseInt(s) ==
  IF LeadingDigits(s) = <<>> THEN NaN ELSE DecimalValue(LeadingDigits(s))

RECURSIVE toString(_)
\* n.toString() for a non-negative integer
toString(n) ==
  IF n < 10 THEN <<DigitChar(n)>>
  ELSE toString(n \div 10) \o <<DigitChar(n % 10)>>

\* a > b on numbers: false when either is NaN
GreaterThan(a, b) == a # NaN /\ b # NaN /\ a > b

(***************************************************************************)
(* update.js: the delta index and the selection of new deltas              *)
(***************************************************************************)
JSON_GZ == <<".", "j", "s", "o", "n", ".", "g", "z">>

\* f.endsWith(suffix)
endsWith(f, suffix) ==
  /\ Len(f) >= Len(suffix)
  /\ SubSeq(f, Len(f) - Len(suffix) + 1, Len(f)) = suffix

\* The longest suffix of s made of digits.
TrailingDigits(s) ==
  LET k == CHOOSE k \in 0..Len(s) :
             /\ \A i \in (Len(s) - k + 1)..Len(s) : s[i] \in Digits
             /\ (k = Len(s) \/ s[Len(s) - k] \notin Digits)
  IN SubSeq(s, Len(s) - k + 1, Len(s))

\* s without its last n characters
DropLast(s, n) == SubSeq(s, 1, Len(s) - n)

\* s ends with "_" followed by a non-empty digit run d (the run is maximal:
\* the character before a group of the pattern is "_", never a digit)
EndsWithUnderscoreDigits(s) ==
  LET d == TrailingDigits(s) IN
    /\ d # <<>>
    /\ Len(s) > Len(d)
    /\ s[Len(s) - Len(d)] = "_"

\* filename.match(/_(\d+)_(\d+)\.json\.gz$/)
match(filename) ==
  IF ~endsWith(filename, JSON_GZ) THEN [ok |-> FALSE]
  ELSE LET a == DropLast(filename, Len(JSON_GZ)) IN
    IF ~EndsWithUnderscoreDigits(a) THEN [ok |-> FALSE]
    ELSE LET g2 == TrailingDigits(a)
             b == DropLast(a, Len(g2) + 1)
         IN IF ~EndsWithUnderscoreDigits(b) THEN [ok |-> FALSE]
            ELSE [ok |-> TRUE, g1 |-> TrailingDigits(b), g2 |-> g2]

\* indexContent.split('\n').filter(f => f.endsWith('.json.gz'))
allDeltas(indexLines) == SelectSeq(indexLines, LAMBDA f : endsWith(f, JSON_GZ))

\* A map step that keeps a filename it cannot parse, with the digits it ends
\* with as its end.
descriptorKept(filename) ==
  IF match(filename).ok
  THEN [filename |-> filename,
        start |-> parseInt(match(filename).g1),
        end |-> parseInt(match(filename).g2)]
  ELSE [filename |-> filename, start |-> 0,
        end |-> DecimalValue(TrailingDigits(DropLast(filename, Len(JSON_GZ))))]

\* The descriptor the map step yields for a filename, or null.
descriptor(filename) ==
  IF match(filename).ok
  THEN [filename |-> filename,
        start |-> parseInt(match(filename).g1),
        end |-> parseInt(match(filename).g2)]
  ELSE Null

\* The filter step without the watermark test: every parsed delta is selected.
isParsed(d, lastTimestamp) == d # Null

\* The filter step's condition stated with `>=`: an already applied delta is selected again.
isNewOrEqual(d, lastTimestamp) == d # Null /\ (d.end = lastTimestamp \/ GreaterThan(d.end, lastTimestamp))

\* d => d && d.end > lastTimestamp
isNew(d, lastTimestamp) == d # Null /\ GreaterThan(d.end, lastTimestamp)

RECURSIVE insertByEnd(_, _)
\* d placed after every element whose end is <= d.end (a stable insertion)
insertByEnd(sorted, d) ==
  IF sorted = <<>> THEN <<d>>
  ELSE IF sorted[Len(sorted)].end <= d.end THEN Append(sorted, d)
  ELSE Append(insertByEnd(DropLast(sorted, 1), d), sorted[Len(sorted)])

RECURSIVE stableSortByEnd(_)
stableSortByEnd(ds) ==
  IF ds = <<>> THEN <<>>
  ELSE insertByEnd(stableSortByEnd(DropLast(ds, 1)), ds[Len(ds)])

\* The sort step left out: the deltas stay in index order.
indexOrder(ds) == ds

\* .sort((a, b) => a.end - b.end): ascending by end, stable
sortByEnd(ds) == stableSortByEnd(ds)

\* newDeltas of runUpdate
newDeltas(indexLines, lastTimestamp) ==
  sortByEnd(SelectSeq([i \in 1..Len(allDeltas(indexLines)) |->
                          descriptor(allDeltas(indexLines)[i])],
                      LAMBDA d : isNew(d, lastTimestamp)))

(***************************************************************************)
(* The SQLite store (database.js): tables products and meta, and the       *)
(* external-content FTS5 table products_fts (content='products').  A row   *)
(* of products is a record of its columns and its rowid.  The FTS index    *)
(* holds, per rowid, the id and search_text it was built from: nothing     *)
(* propagates a write of products to it (the schema has no trigger).       *)
(***************************************************************************)
LAST_DELTA_KEY == "last_applied_delta_timestamp"
LAST_FULL_IMPORT_KEY == "last_full_import_date"

\* The rowid SQLite gives a new row: one more than the largest in the table.
newRowid(tbl) ==
  IF tbl = {} THEN 1
  ELSE 1 + (CHOOSE m \in {r.rowid : r \in tbl} : \A r \in tbl : r.rowid <= m)

\* The named parameters of update.js's upsert statement.
UpsertParameters == ProductKeys

\* The named parameters of import.js's insert statement.
InsertParameters == ProductKeys \cup {"complete_macros"}

\* better-sqlite3 binds an object to named parameters: every parameter of the
\* statement must be an own property of the object (else it throws a RangeError).
bindable(product, parameters) == parameters \subseteq DOMAIN product

\* A REPLACE that keeps the old row's non-null values where the new value is null.
mergedRow(tbl, product, now) ==
  LET old == {r \in tbl : r.id = product.id}
      fresh == [k \in UpsertParameters |-> product[k]]
                 @@ [rowid |-> newRowid(tbl), complete_macros |-> Null,
                     created_at |-> now, updated_at |-> now]
  IN IF old = {} THEN fresh
     ELSE LET o == CHOOSE r \in old : TRUE IN
       [k \in DOMAIN fresh |->
          IF k \in UpsertParameters /\ fresh[k] = Null THEN o[k] ELSE fresh[k]]

\* The row update.js's INSERT OR REPLACE writes: the bound columns, updated_at =
\* CURRENT_TIMESTAMP, and the defaults of the columns the statement does not name
\* (complete_macros NULL, created_at CURRENT_TIMESTAMP).
upsertedRow(tbl, product, now) ==
  [k \in UpsertParameters |-> product[k]]
    @@ [rowid |-> newRowid(tbl), complete_macros |-> Null,
        created_at |-> now, updated_at |-> now]

\* A plain INSERT into a table with no key: the row with the same id stays.
insertRun(tbl, product, now) == tbl \cup {upsertedRow(tbl, product, now)}

\* upsertStmt.run(product): the row with the same id (PRIMARY KEY) is deleted.
upsertRun(tbl, product, now) ==
  {r \in tbl : r.id # product.id} \cup {upsertedRow(tbl, product, now)}

RECURSIVE upsert(_, _, _)
\* stmts.upsert(batch): one transaction over the batch
upsert(tbl, batch, now) ==
  IF batch = <<>> THEN tbl
  ELSE upsert(upsertRun(tbl, batch[1], now), Tail(batch), now)

\* The row import.js's INSERT OR REPLACE writes (created_at and updated_at default).
insertedRow(tbl, product, now) ==
  [k \in InsertParameters |-> product[k]]
    @@ [rowid |-> newRowid(tbl), created_at |-> now, updated_at |-> now]

RECURSIVE insertAll(_, _, _)
insertAll(tbl, batch, now) ==
  IF batch = <<>> THEN tbl
  ELSE insertAll({r \in tbl : r.id # batch[1].id}
                   \cup {insertedRow(tbl, batch[1], now)}, Tail(batch), now)

\* insert(batch) of import.js: one transaction; a run() that throws rolls it back.
insert(tbl, batch, now) ==
  IF \A i \in 1..Len(batch) : bindable(batch[i], InsertParameters)
  THEN [ok |-> TRUE, tbl |-> insertAll(tbl, batch, now)]
  ELSE [ok |-> FALSE, tbl |-> tbl]

\* getMeta(key): the value, or undefined
getMeta(m, key) == IF key \in DOMAIN m THEN Str(m[key]) ELSE Undefined

\* setMeta(key, value): INSERT OR REPLACE INTO meta
setMeta(m, key, value) == [k \in DOMAIN m \cup {key} |-> IF k = key THEN value ELSE m[k]]

\* `x || '0'`
OrZero(v) == IF Truthy(v) THEN v ELSE Str(<<"0">>)

\* parseInt(db.getMeta(LAST_DELTA_KEY) || '0', 10)
lastTimestampOf(m) == parseInt(OrZero(getMeta(m, LAST_DELTA_KEY)).s)

\* INSERT INTO products_fts(products_fts) VALUES('rebuild'): the index rebuilt
\* from the content table
rebuild(tbl) ==
  {[rowid |-> r.rowid, id |-> r.id, search_text |-> r.search_text] : r \in tbl}

(***************************************************************************)
(* database.js: search.  The text of the model is made of lower-case       *)
(* letters, digits, blanks and the double quote; on such text the          *)
(* tokenizers of products_fts (unicode61, porter ascii) split at every     *)
(* character that is neither a letter nor a digit, and the words used are  *)
(* their own stems.                                                        *)
(***************************************************************************)
DEFAULT_LIMIT == 10
MIN_LIMIT == 1
MAX_LIMIT == 100

\* Characters /\s/ matches and String.prototype.trim removes.
Whitespace == {" ", "\t"}

DQ == "\""
STAR == "*"

RECURSIVE trimStart(_)
trimStart(s) ==
  IF s # <<>> /\ s[1] \in Whitespace THEN trimStart(Tail(s)) ELSE s

RECURSIVE trimEnd(_)
trimEnd(s) ==
  IF s # <<>> /\ s[Len(s)] \in Whitespace
  THEN trimEnd(SubSeq(s, 1, Len(s) - 1)) ELSE s

\* term.trim()
trim(s) == trimEnd(trimStart(s))

\* A guard without the test of the trimmed term.
isEmptyOrNotString(term) == ~Truthy(term) \/ term.t # "string"

\* !term || typeof term !== 'string' || term.trim() === ''
isBlank(term) == ~Truthy(term) \/ term.t # "string" \/ trim(term.s) = <<>>

RECURSIVE splitFrom(_, _, _)
\* The pieces of s from position i on, cur being the piece under way: a run
\* of whitespace ends a piece.
splitFrom(s, i, cur) ==
  IF i > Len(s) THEN <<cur>>
  ELSE IF s[i] \in Whitespace
  THEN <<cur>> \o splitFrom(trimStart(SubSeq(s, i, Len(s))), 1, <<>>)
  ELSE splitFrom(s, i + 1, Append(cur, s[i]))

\* term.split(/\s+/)
split(s) == splitFrom(s, 1, <<>>)

\* .filter(t => t)
nonEmpty(pieces) == SelectSeq(pieces, LAMBDA t : t # <<>>)

RECURSIVE doubleQuotes(_)
\* t.replace(/"/g, '""')
doubleQuotes(t) ==
  IF t = <<>> THEN <<>>
  ELSE (IF t[1] = DQ THEN <<DQ, DQ>> ELSE <<t[1]>>) \o doubleQuotes(Tail(t))

\* The token between quotes as it is.
quotedRaw(t) == <<DQ>> \o t \o <<DQ, STAR>>

\* `"${t.replace(/"/g, '""')}"*`
quoted(t) == <<DQ>> \o doubleQuotes(t) \o <<DQ, STAR>>

\* The FTS5 query search builds from the term.
ftsTermOf(s) ==
  LET tokens == nonEmpty(split(s))
  IN JoinStrings([i \in 1..Len(tokens) |-> quoted(tokens[i])])

\* Math.min(limit, 100) only.
clampAbove(limit) == IF limit > MAX_LIMIT THEN MAX_LIMIT ELSE limit

\* Math.min(Math.max(limit, 1), 100)
clamp(limit) ==
  LET atLeast == IF limit < MIN_LIMIT THEN MIN_LIMIT ELSE limit
  IN IF atLeast > MAX_LIMIT THEN MAX_LIMIT ELSE atLeast

(***************************************************************************)
(* SQLite: the FTS5 query `f.products_fts MATCH ?`                         *)
(***************************************************************************)
RECURSIVE readString(_, _, _)
\* The FTS5 string that starts after the opening quote at position i - 1: ""
\* stands for one quote, " ends the string.
readString(s, i, acc) ==
  IF i > Len(s) THEN [ok |-> FALSE]
  ELSE IF s[i] # DQ THEN readString(s, i + 1, Append(acc, s[i]))
  ELSE IF i < Len(s) /\ s[i + 1] = DQ THEN readString(s, i + 2, Append(acc, DQ))
  ELSE [ok |-> TRUE, text |-> acc, next |-> i + 1]

RECURSIVE parsePhrases(_, _)
\* The phrases of the query text from position i on: strings, each with an
\* optional *, separated by blanks (an implicit AND).  Anything else in the
\* text is a syntax error.
parsePhrases(s, i) ==
  IF i > Len(s) THEN [ok |-> TRUE, phrases |-> <<>>]
  ELSE IF s[i] \in Whitespace THEN parsePhrases(s, i + 1)
  ELSE IF s[i] # DQ THEN [ok |-> FALSE]
  ELSE LET str == readString(s, i + 1, <<>>) IN
    IF ~str.ok THEN [ok |-> FALSE]
    ELSE LET star == str.next <= Len(s) /\ s[str.next] = STAR
             rest == parsePhrases(s, IF star THEN str.next + 1 ELSE str.next)
         IN IF ~rest.ok THEN [ok |-> FALSE]
            ELSE [ok |-> TRUE,
                  phrases |-> <<[text |-> str.text, prefix |-> star]>> \o rest.phrases]

\* The parsed query; a text with no phrase is a syntax error.
parseQuery(s) ==
  LET r == parsePhrases(s, 1)
  IN IF r.ok /\ r.phrases # <<>> THEN r ELSE [ok |-> FALSE]

Letters ==
  {"a", "b", "c", "d", "e", "f", "g", "h", "i", "j", "k", "l", "m",
   "n", "o", "p", "q", "r", "s", "t", "u", "v", "w", "x", "y", "z"}

\* The characters tokens are made of.
TokenChars == Letters \cup Digits

RECURSIVE tokenize(_, _)
\* The tokens of the text s, cur being the token under way.
tokenize(s, cur) ==
  IF s = <<>> THEN (IF cur = <<>> THEN <<>> ELSE <<cur>>)
  ELSE IF s[1] \in TokenChars THEN tokenize(Tail(s), Append(cur, s[1]))
  ELSE (IF cur = <<>> THEN <<>> ELSE <<cur>>) \o tokenize(Tail(s), <<>>)

\* p is a prefix of the token t.
isPrefix(p, t) == Len(p) <= Len(t) /\ SubSeq(t, 1, Len(p)) = p

\* The phrase occurs in the tokens of one column: its tokens in a row, the
\* last one as a prefix when the phrase ends with *.
phraseIn(phrase, column) ==
  LET want == tokenize(phrase.text, <<>>)
      have == tokenize(column, <<>>)
  IN /\ want # <<>>
     /\ \E at \in 0..Len(have) - Len(want) :
          \A k \in 1..Len(want) :
            IF k = Len(want) /\ phrase.prefix
            THEN isPrefix(want[k], have[at + k])
            ELSE want[k] = have[at + k]

\* The text of an indexed value: NULL has none.
textOf(v) == IF v.t = "string" THEN v.s ELSE <<>>

\* The index entry matches the query: every phrase occurs in a column.
matches(entry, phrases) ==
  \A i \in 1..Len(phrases) :
    \/ phraseIn(phrases[i], textOf(entry.id))
    \/ phraseIn(phrases[i], textOf(entry.search_text))

\* The rowids the statement selects: index entries that match, joined to the
\* row of products with the same rowid, complete ones only for
\* stmtSearchComplete.
hits(tbl, index, phrases, completeOnly) ==
  {e.rowid : e \in {e \in index :
     /\ matches(e, phrases)
     /\ \E p \in tbl : p.rowid = e.rowid /\ (completeOnly => p.complete_macros = Num(1))}}

\* The orders ORDER BY bm25(...) can give a set of rowids.
Rankings(S) ==
  {f \in [1..Cardinality(S) -> S] : \A i, j \in DOMAIN f : i # j => f[i] # f[j]}

\* LIMIT n: the first n rows, and every row when n is negative.
limited(rows, n) ==
  IF n < 0 \/ n >= Len(rows) THEN rows ELSE SubSeq(rows, 1, n)

\* statement.all(ftsTerm, limit): the rows in the order rank, or an error of
\* the query text.
all(tbl, index, completeOnly, ftsTerm, limit, rank) ==
  LET query == parseQuery(ftsTerm) IN
    IF ~query.ok THEN [threw |-> TRUE, queried |-> TRUE, limit |-> limit, rows |-> <<>>]
    ELSE [threw |-> FALSE, queried |-> TRUE, limit |-> limit,
          rows |-> limited([i \in 1..Len(rank) |->
                              CHOOSE p \in tbl : p.rowid = rank[i]], limit)]

\* search(term, { limit, completeOnly }); rank is the order bm25 gives the
\* selected rows.
search(tbl, index, term, limit, completeOnly, rank) ==
  IF isBlank(term)
  THEN [threw |-> FALSE, queried |-> FALSE, limit |-> 0, rows |-> <<>>]
  ELSE all(tbl, index,
           IF completeOnly = Undefined THEN TRUE ELSE Truthy(completeOnly),
           ftsTermOf(term.s),
           clamp(IF limit = Undefined THEN DEFAULT_LIMIT ELSE limit.n), rank)

\* stmtGet.get(id): the row of products with that id, or undefined.
stmtGet(tbl, id) ==
  IF \E p \in tbl : p.id = id THEN CHOOSE p \in tbl : p.id = id ELSE Undefined

\* A lookup that ignores the id.
getAny(tbl, id) == IF tbl = {} THEN Undefined ELSE CHOOSE p \in tbl : TRUE

\* get(id)
get(tbl, id) == IF ~Truthy(id) THEN Undefined ELSE stmtGet(tbl, id)

(***************************************************************************)
(* api/app.js: the routes of the Express application.  A request carries   *)
(* the route parameter and the query parameters limit and completeOnly,    *)
(* each a string or undefined; a response is the status, the error of the  *)
(* body or "", the product or the rows of the body, and whether the        *)
(* handler called db.search.                                               *)
(***************************************************************************)
DEFAULT_QUERY_LIMIT == 50
MAX_QUERY_LIMIT == 100

MINUS == "-"
PLUS == "+"
TRUE_TEXT == <<"t", "r", "u", "e">>

INVALID_LIMIT == "Invalid limit parameter. Must be a positive integer <= 100."
TERM_REQUIRED == "Search term is required"
CODE_REQUIRED == "Product code is required"
NOT_FOUND == "Product not found"
SEARCH_FAILED == "An error occurred during the search."
GET_FAILED == "An error occurred while fetching the product."

\* A number that is not NaN, and NaN.
Number(n) == [nan |-> FALSE, n |-> n]
NotANumber == [nan |-> TRUE, n |-> 0]

\* parseInt(string, 10): leading whitespace is skipped, then an optional
\* sign and the digits that follow are read; NaN when no digit follows.
parseIntRadix10(string) ==
  LET s == trimStart(string)
      signed == s # <<>> /\ s[1] \in {MINUS, PLUS}
      digits == LeadingDigits(IF signed THEN Tail(s) ELSE s)
  IN IF digits = <<>> THEN NotANumber
     ELSE IF signed /\ s[1] = MINUS THEN Number(0 - DecimalValue(digits))
     ELSE Number(DecimalValue(digits))

isNaN(number) == number.nan

\* req.query.limit ? parseInt(req.query.limit, 10) : 50
limitOf(query) ==
  IF Truthy(query.limit) THEN parseIntRadix10(query.limit.s)
  ELSE Number(DEFAULT_QUERY_LIMIT)

\* The same choice with false for an absent parameter.
completeOnlyOrFalse(query) ==
  IF Truthy(query.completeOnly) THEN query.completeOnly.s = TRUE_TEXT ELSE FALSE

\* req.query.completeOnly ? req.query.completeOnly === 'true' : true
completeOnlyOf(query) ==
  IF Truthy(query.completeOnly) THEN query.completeOnly.s = TRUE_TEXT ELSE TRUE

\* The test of the limit without limit <= 0.
isNaNOrAbove(limit) == isNaN(limit) \/ limit.n > MAX_QUERY_LIMIT

\* isNaN(limit) || limit <= 0 || limit > 100
isInvalidLimit(limit) == isNaN(limit) \/ limit.n <= 0 \/ limit.n > MAX_QUERY_LIMIT

Response(status, error, product, rows, searched) ==
  [status |-> status, error |-> error, product |-> product, rows |-> rows,
   searched |-> searched]

\* The handler of GET /product/:code
getProduct(tbl, code) ==
  IF ~Truthy(code) THEN Response(400, CODE_REQUIRED, Undefined, <<>>, FALSE)
  ELSE LET product == get(tbl, code) IN
    IF product # Undefined /\ product # Null
    THEN Response(200, "", product, <<>>, FALSE)
    ELSE Response(404, NOT_FOUND, Undefined, <<>>, FALSE)

\* The handler of GET /search/:term; rank is the order bm25 gives the rows
\* the statement selects.
getSearch(tbl, index, term, query, rank) ==
  LET completeOnly == completeOnlyOf(query)
      limit == limitOf(query)
  IN IF ~Truthy(term) THEN Response(400, TERM_REQUIRED, Undefined, <<>>, FALSE)
     ELSE IF isInvalidLimit(limit)
     THEN Response(400, INVALID_LIMIT, Undefined, <<>>, FALSE)
     ELSE LET results == search(tbl, index, term, Num(limit.n), Bool(completeOnly), rank)
          IN IF results.threw THEN Response(500, SEARCH_FAILED, Undefined, <<>>, TRUE)
             ELSE Response(200, "", Undefined, results.rows, TRUE)

\* The handler of GET /
getRoot == Response(200, "", Undefined, <<>>, FALSE)

(***************************************************************************)
(* The newer db/database.js (src/unnamed/part_006): the embedding           *)
(* singleton, the asynchronous factory create, search and semanticSearch.  *)
(* A load of the model is numbered from 1; instance is the number of the   *)
(* load whose promise the singleton holds, 0 for null.                     *)
(***************************************************************************)
NoInstance == 0

\* getInstance that calls pipeline() whatever instance holds.
getInstanceReloading(singleton) ==
  [instance |-> singleton.loads + 1, loads |-> singleton.loads + 1]

\* PipelineSingleton.getInstance(): the body has no await, so the test and
\* the assignment are one step of the event loop.
getInstance(singleton) ==
  IF singleton.instance = NoInstance
  THEN [instance |-> singleton.loads + 1, loads |-> singleton.loads + 1]
  ELSE singleton

\* The statements prepareStatements() of the newer database.js assigns.
PreparedStatements ==
  {"stmtGet", "stmtSearch", "stmtSemanticSearch", "stmtGetMeta", "stmtSetMeta"}

\* The rowids stmtSearch of the newer database.js selects: index entries
\* that match, joined to the row of products with the same id.
hitsById(tbl, index, phrases) ==
  {p.rowid : p \in {p \in tbl : \E e \in index : e.id = p.id /\ matches(e, phrases)}}

\* completeOnly ? this.stmtSearchComplete : this.stmtSearch
statementOf(completeOnly) ==
  IF (IF completeOnly = Undefined THEN TRUE ELSE Truthy(completeOnly))
  THEN "stmtSearchComplete" ELSE "stmtSearch"

\* search(term, options) of the newer database.js: statement.all is a
\* TypeError when the statement was never prepared.
searchNewer(tbl, index, term, limit, completeOnly, rank) ==
  IF isBlank(term)
  THEN [threw |-> FALSE, queried |-> FALSE, limit |-> 0, rows |-> <<>>]
  ELSE IF statementOf(completeOnly) \notin PreparedStatements
  THEN [threw |-> TRUE, queried |-> FALSE, limit |-> 0, rows |-> <<>>]
  ELSE all(tbl, index, FALSE, ftsTermOf(term.s),
           clamp(IF limit = Undefined THEN DEFAULT_LIMIT ELSE limit.n), rank)

\* semanticSearch(term, options): the embedder is awaited outside any try,
\* then stmtSemanticSearch gives the rows nearest first.
semanticSearch(tbl, term, limit, embedderFails, nearest) ==
  IF isBlank(term)
  THEN [threw |-> FALSE, queried |-> FALSE, limit |-> 0, rows |-> <<>>]
  ELSE IF embedderFails
  THEN [threw |-> TRUE, queried |-> FALSE, limit |-> 0, rows |-> <<>>]
  ELSE [threw |-> FALSE, queried |-> TRUE,
        limit |-> IF limit = Undefined THEN DEFAULT_LIMIT ELSE limit.n,
        rows |-> limited([i \in 1..Len(nearest) |->
                            CHOOSE p \in tbl : p.rowid = nearest[i]],
                         IF limit = Undefined THEN DEFAULT_LIMIT ELSE limit.n)]

(***************************************************************************)
(* Inputs: source lines, the delta files the server holds, the indexes it  *)
(* may publish.                                                            *)
(***************************************************************************)
CodeX == <<"1", "1">>
CodeY == <<"2", "2">>
CodeZ == <<"3", "3">>

\* X with a brand, a category tag, all macros and completeness 0.9
LineX1 ==
  JsonLine([code |-> Str(CodeX), product_name |-> Str(<<"n", "u", "t">>),
            brands |-> Str(<<"f", "e", "r">>),
            categories_tags |-> Arr(<< <<"s", "p">> >>),
            hasNutriments |-> TRUE,
            nutriments |-> [energy_kcal_100g |-> Num(5), fat_100g |-> Num(3),
                            carbohydrates_100g |-> Num(6), proteins_100g |-> Num(1)]
                           @@ NoNutriments,
            completeness |-> Num(9), last_modified_t |-> Num(100)] @@ NoFields)

\* X renamed, with no brand, no tags and no nutriments
LineX2 ==
  JsonLine([code |-> Str(CodeX), product_name |-> Str(<<"n", "u", "t", " ", "b">>),
            completeness |-> Num(5), last_modified_t |-> Num(200)] @@ NoFields)

\* Y with macros of which three are 0
LineY ==
  JsonLine([code |-> Str(CodeY), product_name |-> Str(<<"c", "o", "l", "a">>),
            hasNutriments |-> TRUE,
            nutriments |-> [energy_kcal_100g |-> Num(0), fat_100g |-> Num(0),
                            carbohydrates_100g |-> Num(1), proteins_100g |-> Num(0)]
                           @@ NoNutriments,
            completeness |-> Num(9)] @@ NoFields)

\* Z with a name
LineZ == JsonLine([code |-> Str(CodeZ), product_name |-> Str(<<"c", "o", "d">>)] @@ NoFields)

\* a code and no name
LineNoName == JsonLine([code |-> Str(CodeZ)] @@ NoFields)

\* Delta filenames: D1 ends at 100, D2 and D3 both end at 200.
D1 == <<"d", "_", "0", "_", "1", "0", "0">> \o JSON_GZ
D2 == <<"d", "_", "1", "0", "0", "_", "2", "0", "0">> \o JSON_GZ
D3 == <<"e", "_", "1", "5", "0", "_", "2", "0", "0">> \o JSON_GZ

Filenames == {D1, D2, D3}

\* The lines of each delta file on the server.
DeltaLines(filename) ==
  CASE filename = D1 -> <<LineX1, MalformedLine>>
    [] filename = D2 -> <<LineX2, LineY, LineNoName>>
    [] filename = D3 -> <<LineZ>>
    [] OTHER -> <<>>

\* The longest index the server publishes.
MaxIndex == 2

\* The indexes: the sequences of distinct filenames, in any order.
Indexes ==
  {ix \in UNION {[1..n -> Filenames] : n \in 0..MaxIndex} :
     \A i, j \in 1..Len(ix) : i # j => ix[i] # ix[j]}

\* Runs started (the scripts are run any number of times).
MaxRuns == 2

\* CURRENT_TIMESTAMP takes the values 0..MaxClock.
MaxClock == 1

\* update.js's BATCH_SIZE (1000), scaled to the deltas above.
UPDATE_BATCH_SIZE == 2

\* import.js's BATCH_SIZE (5000), scaled to the sources below.
IMPORT_BATCH_SIZE == 2

\* The longest source file.
MaxSource == 2

\* The source files (SOURCE_PATH): sequences of lines.
Sources ==
  UNION {[1..n -> {LineX1, LineX2, MalformedLine, LineNoName}] : n \in 0..MaxSource}

\* Lines of a manifest that are no delta filename: a start that is no number,
\* and another extension.
NoStart == <<"d", "_", "a", "_", "3", "0", "0">> \o JSON_GZ
NoJsonGz == <<"d", "_", "0", "_", "3", "0", "0", ".", "t", "x", "t">>
ManifestLines == {D1, D2, NoStart, NoJsonGz}

\* The longest manifest.
MaxManifest == 2

\* The manifests (index.txt split into lines): any lines, repeated or not.
Manifests == UNION {[1..n -> ManifestLines] : n \in 0..MaxManifest}

\* Delta files applied one after the other.
MaxApplications == 3
MaxBatches == 2

(***************************************************************************)
(* State                                                                   *)
(***************************************************************************)
VARIABLES
  dbExists,    \* products.db exists
  products,    \* table products
  meta,        \* table meta: key -> value
  fts,         \* the index of products_fts
  clock,       \* CURRENT_TIMESTAMP
  files,       \* the files of DATA_DIR other than products.db
  runs,        \* scripts started so far
  u,           \* the update.js process
  imp,         \* the import.js process
  apply,       \* successive applications of delta files to the store
  h,           \* history of the current update run: the deltas whose processing
               \* started, the ends of those fully applied, the index it
               \* downloaded, and the number of the delta that failed (or 0)
  hPersisted,  \* ends E of the deltas fully applied with the watermark E persisted
  hPersistedAtStart, \* hPersisted when the current update run started
  hCrash,      \* the delta an update run was processing when it last crashed
  hLastLine,   \* id -> the source line of the last committed write of that id
  tx,          \* the write transaction of a batch, statement by statement
  tr,          \* the last line given to transformProduct and what it returned
  q,           \* the last call of search and what it returned
  api,         \* the API process: its position, the last request and its response
  sem,         \* the embedding singleton and the calls made of it
  sel,         \* the last run of update.js over a manifest: what it selected
  rb,          \* the run of rebuild-fts.js: its position and what it did
  srv          \* the server process of server.js: its life and its connections

db == <<dbExists, products, meta, fts>>
env == <<clock>>
hist == <<h, hPersisted, hPersistedAtStart, hCrash, hLastLine>>
aux == <<sel, rb, srv>>
runtime == <<api, sem, aux>>
calls == <<tx, tr, q, runtime>>
vars == <<dbExists, products, meta, fts, clock, files, runs, u, imp, apply,
          h, hPersisted, hPersistedAtStart, hCrash, hLastLine, tx, tr, q, api, sem, sel, rb, srv>>

IdleUpdate ==
  [pc |-> "idle", lastTimestamp |-> 0, newDeltas |-> <<>>, k |-> 0,
   latestProcessedTimestamp |-> 0, pos |-> 0, batch |-> <<>>, err |-> FALSE]

IdleImport ==
  [pc |-> "idle", source |-> <<>>, pos |-> 0, batch |-> <<>>,
   totalLines |-> 0, importedCount |-> 0]

NoApplication == [n |-> 0, file |-> <<>>, again |-> FALSE, first |-> {}]

NoRun == [started |-> <<>>, full |-> <<>>, index |-> <<>>, failed |-> 0]
NoCrash == [set |-> FALSE, file |-> <<>>, w |-> 0, index |-> <<>>]

\* transformProduct has not been called.
NoCall == [n |-> 0, line |-> EmptyLine, first |-> Null]

\* search has not been called.
NoQuery ==
  [n |-> 0, term |-> Undefined, limit |-> Undefined, completeOnly |-> Undefined,
   rank |-> <<>>, out |-> [threw |-> FALSE, queried |-> FALSE, limit |-> 0, rows |-> <<>>]]

NoQueryParameters == [limit |-> Undefined, completeOnly |-> Undefined]

\* No request is being answered.
NoRequest ==
  [route |-> "", param |-> Undefined, query |-> NoQueryParameters, rank |-> <<>>]
NoResponse == Response(0, "", Undefined, <<>>, FALSE)

\* The API process has not been started.
ApiDown ==
  [pc |-> "down", exitCode |-> 0, served |-> FALSE, req |-> NoRequest,
   res |-> NoResponse]

\* The concurrent callers of create() in the process.
MaxCallers == 2
Callers == 1..MaxCallers

\* No call of search or semanticSearch is under way.
NoSemanticCall ==
  [kind |-> "", term |-> Undefined, limit |-> Undefined, completeOnly |-> Undefined,
   embedderFails |-> FALSE, rank |-> <<>>,
   out |-> [threw |-> FALSE, queried |-> FALSE, limit |-> 0, rows |-> <<>>]]

\* The singleton holds null, no load was started and create() was not called.
NoEmbedder ==
  [instance |-> NoInstance, loads |-> 0, settled |-> <<>>,
   callers |-> [c \in Callers |-> [pc |-> "idle", got |-> NoInstance]],
   call |-> NoSemanticCall]

\* update.js was not run over a manifest since the store was created; the
\* load that created it found no Record and no Metadata.
NoSelection ==
  [ran |-> FALSE, replaced |-> FALSE, index |-> <<>>, lastTimestamp |-> 0,
   fetched |-> <<>>]

\* rebuild-fts.js is not running; products_fts exists (initialize() creates it).
IdleRebuild == [pc |-> "idle", table |-> TRUE, done |-> <<>>, error |-> FALSE]

\* Connections a client holds to the server at a time.
MaxConnections == 3
Connections == 1..MaxConnections

\* Shutdown signals sent to a server process.
MaxSignals == 2

\* server.js was not started.
ServerOff ==
  [pc |-> "off", version |-> "", handle |-> "none", signals |-> 0,
   conns |-> [c \in Connections |-> "none"], stopped |-> FALSE,
   exitCode |-> 0, servedClosed |-> FALSE]

\* No transaction is open and none has ended.
NoTransaction ==
  [open |-> FALSE, kind |-> "", batch |-> <<>>, i |-> 0, work |-> {},
   n |-> 0, outcome |-> ""]

\* A store as OpenFoodFactsDB.initialize() leaves it, before any sync.
InitSync ==
  /\ dbExists = TRUE
  /\ products = {}
  /\ meta = <<>>
  /\ fts = {}
  /\ clock = 0
  /\ files = {}
  /\ runs = 0
  /\ u = IdleUpdate
  /\ imp = IdleImport
  /\ apply = NoApplication
  /\ tx = NoTransaction
  /\ tr = NoCall
  /\ q = NoQuery
  /\ api = ApiDown
  /\ sem = NoEmbedder
  /\ sel = NoSelection
  /\ rb = IdleRebuild
  /\ srv = ServerOff
  /\ h = NoRun
  /\ hPersisted = {}
  /\ hPersistedAtStart = {}
  /\ hCrash = NoCrash
  /\ hLastLine = <<>>

(***************************************************************************)
(* update.js                                                               *)
(***************************************************************************)
INDEX_TXT == <<"i", "n", "d", "e", "x", ".", "t", "x", "t">>
GZ == <<".", "g", "z">>

\* The first position at which pat occurs in s, or 0.
indexOf(s, pat) ==
  LET at == {i \in 1..(Len(s) - Len(pat) + 1) : SubSeq(s, i, i + Len(pat) - 1) = pat}
  IN IF at = {} THEN 0 ELSE CHOOSE i \in at : \A j \in at : i <= j

\* path.join(DATA_DIR, deltaFilename), within DATA_DIR
localPath(deltaFilename) == deltaFilename

\* localPath.replace('.gz', ''): the first occurrence removed
localJsonlPath(deltaFilename) ==
  LET s == localPath(deltaFilename)
      i == indexOf(s, GZ)
  IN IF i = 0 THEN s ELSE SubSeq(s, 1, i - 1) \o SubSeq(s, i + Len(GZ), Len(s))

\* The delta of the current iteration of `for (const delta of newDeltas)`.
delta == u.newDeltas[u.k]

\* The value of the watermark when the delta's start is written instead of its end.
watermarkOfStart(d) == toString(d.start)

\* latestProcessedTimestamp = delta.end; latestProcessedTimestamp.toString()
watermarkOf(d) == toString(d.end)

\* A failure of processDeltaFile swallowed: the loop goes on to setMeta.
afterCleanupSwallowing(err) == "mark"

\* processDeltaFile has try/finally and no catch: after the cleanup an error
\* propagates out of runUpdate's loop, and a normal return goes on to setMeta.
afterCleanup(err) == IF err THEN "failed" ELSE "mark"

\* id -> line, after the products of a committed batch
RECURSIVE noteLines(_, _)
noteLines(hl, batch) ==
  IF batch = <<>> THEN hl
  ELSE noteLines([i \in DOMAIN hl \cup {batch[1].id} |->
                    IF i = batch[1].id THEN batch[1].raw_data ELSE hl[i]],
                 Tail(batch))

\* const product = transformProduct(line); if (product) batch.push(product)
pushLine(batch, line) ==
  IF transformProduct(line) # Null THEN Append(batch, transformProduct(line)) ELSE batch

\* new OpenFoodFactsDB({ readonly: false, fileMustExist: true }) and the read
\* of the watermark
StartUpdate ==
  /\ u.pc = "idle" /\ imp.pc = "idle"
  /\ runs < MaxRuns
  /\ dbExists
  /\ runs' = runs + 1
  /\ u' = [IdleUpdate EXCEPT !.pc = "index", !.lastTimestamp = lastTimestampOf(meta)]
  /\ h' = NoRun
  /\ hPersistedAtStart' = hPersisted
  /\ UNCHANGED <<db, env, files, imp, apply, calls, hPersisted, hCrash, hLastLine>>

\* The constructor throws when products.db does not exist: exit code 1.
StartUpdateNoDb ==
  /\ u.pc = "idle" /\ imp.pc = "idle"
  /\ runs < MaxRuns
  /\ ~dbExists
  /\ runs' = runs + 1
  /\ u' = [IdleUpdate EXCEPT !.pc = "failed"]
  /\ h' = NoRun
  /\ hPersistedAtStart' = hPersisted
  /\ UNCHANGED <<db, env, files, imp, apply, calls, hPersisted, hCrash, hLastLine>>

\* A selection that writes the watermark it read back when nothing is new.
DownloadIndexMarking ==
  /\ u.pc = "index"
  /\ files' = files \ {INDEX_TXT}
  /\ \E index \in Indexes :
       /\ LET nd == newDeltas(index, u.lastTimestamp) IN
            u' = IF nd = <<>> THEN [u EXCEPT !.pc = "done"]
                 ELSE [u EXCEPT !.pc = "download", !.newDeltas = nd, !.k = 1,
                                !.latestProcessedTimestamp = u.lastTimestamp]
       /\ h' = [h EXCEPT !.index = index]
       /\ meta' = IF newDeltas(index, u.lastTimestamp) = <<>>
                  THEN setMeta(meta, LAST_DELTA_KEY, toString(u.lastTimestamp))
                  ELSE meta
  /\ UNCHANGED <<dbExists, products, fts, env, runs, imp, apply, calls, hPersisted, hPersistedAtStart, hCrash,
                 hLastLine>>

\* downloadFile(DELTA_INDEX_URL), readFileSync, unlinkSync, and the selection;
\* index is what the server publishes at that moment
DownloadIndex ==
  /\ u.pc = "index"
  /\ files' = files \ {INDEX_TXT}
  /\ \E index \in Indexes :
       /\ LET nd == newDeltas(index, u.lastTimestamp) IN
            u' = IF nd = <<>> THEN [u EXCEPT !.pc = "done"]
                 ELSE [u EXCEPT !.pc = "download", !.newDeltas = nd, !.k = 1,
                                !.latestProcessedTimestamp = u.lastTimestamp]
       /\ h' = [h EXCEPT !.index = index]
  /\ UNCHANGED <<db, env, runs, imp, apply, calls, hPersisted, hPersistedAtStart, hCrash,
                 hLastLine>>

\* downloadFile throws (the response is not ok, or the transfer breaks and
\* leaves a partial index.txt)
DownloadIndexFails ==
  /\ u.pc = "index"
  /\ \E partial \in BOOLEAN :
       files' = IF partial THEN files \cup {INDEX_TXT} ELSE files
  /\ u' = [u EXCEPT !.pc = "failed"]
  /\ UNCHANGED <<db, env, runs, imp, apply, calls, hist>>

\* processDeltaFile: downloadFile(deltaUrl, localPath)
DownloadDelta ==
  /\ u.pc = "download"
  /\ files' = files \cup {localPath(delta.filename)}
  /\ u' = [u EXCEPT !.pc = "decompress"]
  /\ h' = [h EXCEPT !.started = Append(@, delta)]
  /\ hCrash' = NoCrash
  /\ UNCHANGED <<db, env, runs, imp, apply, calls, hPersisted, hPersistedAtStart, hLastLine>>

\* downloadFile throws: a transfer failure
DownloadDeltaFails ==
  /\ u.pc = "download"
  /\ \E partial \in BOOLEAN :
       files' = IF partial THEN files \cup {localPath(delta.filename)} ELSE files
  /\ u' = [u EXCEPT !.pc = "cleanup", !.err = TRUE]
  /\ h' = [h EXCEPT !.started = Append(@, delta), !.failed = u.k]
  /\ hCrash' = NoCrash
  /\ UNCHANGED <<db, env, runs, imp, apply, calls, hPersisted, hPersistedAtStart, hLastLine>>

\* source.pipe(gunzip).pipe(destination) finishes
Decompress ==
  /\ u.pc = "decompress"
  /\ files' = files \cup {localJsonlPath(delta.filename)}
  /\ u' = [u EXCEPT !.pc = "read", !.pos = 0, !.batch = <<>>]
  /\ UNCHANGED <<db, env, runs, imp, apply, calls, hist>>

\* The gzip data is corrupt: gunzip emits 'error'.  Only destination has an
\* 'error' listener, so the error is an uncaught exception and the process
\* ends at once, with no finally block run.
DecompressCorrupt ==
  /\ u.pc = "decompress"
  /\ \E partial \in BOOLEAN :
       files' = IF partial THEN files \cup {localJsonlPath(delta.filename)} ELSE files
  /\ u' = [u EXCEPT !.pc = "failed"]
  /\ h' = [h EXCEPT !.failed = u.k]
  /\ UNCHANGED <<db, env, runs, imp, apply, calls, hPersisted, hPersistedAtStart, hCrash, hLastLine>>

\* destination emits 'error': the promise rejects
DecompressWriteFails ==
  /\ u.pc = "decompress"
  /\ \E partial \in BOOLEAN :
       files' = IF partial THEN files \cup {localJsonlPath(delta.filename)} ELSE files
  /\ u' = [u EXCEPT !.pc = "cleanup", !.err = TRUE]
  /\ h' = [h EXCEPT !.failed = u.k]
  /\ UNCHANGED <<db, env, runs, imp, apply, calls, hPersisted, hPersistedAtStart, hCrash, hLastLine>>

\* One iteration of `for await (const line of rl)`: the line is transformed
\* and pushed, and a full batch is upserted in one transaction.
ReadLine ==
  /\ u.pc = "read"
  /\ u.pos < Len(DeltaLines(delta.filename))
  /\ LET pushed == pushLine(u.batch, DeltaLines(delta.filename)[u.pos + 1])
         full == Len(pushed) >= UPDATE_BATCH_SIZE
     IN /\ products' = IF full THEN upsert(products, pushed, clock) ELSE products
        /\ u' = [u EXCEPT !.pos = @ + 1, !.batch = IF full THEN <<>> ELSE pushed]
        /\ hLastLine' = IF full THEN noteLines(hLastLine, pushed) ELSE hLastLine
  /\ UNCHANGED <<dbExists, meta, fts, env, files, runs, imp, apply, calls, h, hPersisted,
                 hPersistedAtStart, hCrash>>

\* The stream has ended: the last, partial batch is upserted.
EndOfFile ==
  /\ u.pc = "read"
  /\ u.pos = Len(DeltaLines(delta.filename))
  /\ products' = IF Len(u.batch) > 0 THEN upsert(products, u.batch, clock) ELSE products
  /\ u' = [u EXCEPT !.pc = "cleanup", !.err = FALSE, !.batch = <<>>]
  /\ h' = [h EXCEPT !.full = Append(@, delta.end)]
  /\ hLastLine' = noteLines(hLastLine, u.batch)
  /\ UNCHANGED <<dbExists, meta, fts, env, files, runs, imp, apply, calls, hPersisted,
                 hPersistedAtStart, hCrash>>

\* finally: the local files are unlinked when they exist
Cleanup ==
  /\ u.pc = "cleanup"
  /\ files' = files \ {localPath(delta.filename), localJsonlPath(delta.filename)}
  /\ u' = [u EXCEPT !.pc = afterCleanup(u.err)]
  /\ UNCHANGED <<db, env, runs, imp, apply, calls, hist>>

\* db.setMeta(LAST_DELTA_KEY, latestProcessedTimestamp.toString()) and the
\* next iteration, or the end of the loop
SetWatermark ==
  /\ u.pc = "mark"
  /\ meta' = setMeta(meta, LAST_DELTA_KEY, watermarkOf(delta))
  /\ u' = IF u.k < Len(u.newDeltas)
          THEN [u EXCEPT !.pc = "download", !.k = @ + 1,
                         !.latestProcessedTimestamp = delta.end]
          ELSE [u EXCEPT !.pc = "done", !.latestProcessedTimestamp = delta.end]
  /\ hPersisted' = hPersisted \cup {delta.end}
  /\ UNCHANGED <<dbExists, products, fts, env, files, runs, imp, apply, calls, h,
                 hPersistedAtStart, hCrash, hLastLine>>

\* The process ends: db.close() in finally, then exit code 0, or 1 from the
\* catch of runUpdate().
ExitUpdate ==
  /\ u.pc \in {"done", "failed"}
  /\ u' = IdleUpdate
  /\ h' = NoRun
  /\ hCrash' = NoCrash
  /\ UNCHANGED <<db, env, files, runs, imp, apply, calls, hPersisted, hPersistedAtStart,
                 hLastLine>>

\* The states in which the run is processing delta u.k.
Processing == {"download", "decompress", "read", "cleanup", "mark"}

\* The process is killed: an open transaction is rolled back, nothing runs.
CrashUpdate ==
  /\ u.pc \in {"index"} \cup Processing
  /\ u' = IdleUpdate
  /\ h' = NoRun
  /\ hCrash' = IF u.pc \in Processing
               THEN [set |-> TRUE, file |-> delta.filename,
                     w |-> IF u.k = 1 THEN u.lastTimestamp
                           ELSE u.newDeltas[u.k - 1].end,
                     index |-> h.index]
               ELSE NoCrash
  /\ UNCHANGED <<db, env, files, runs, imp, apply, calls, hPersisted, hPersistedAtStart,
                 hLastLine>>

(***************************************************************************)
(* The read loop of processDeltaFile as a function of the table            *)
(***************************************************************************)
RECURSIVE readLines(_, _, _, _)
\* `for await (const line of rl)` and the final batch, at one CURRENT_TIMESTAMP
readLines(tbl, batch, lines, now) ==
  IF lines = <<>>
  THEN IF Len(batch) > 0 THEN upsert(tbl, batch, now) ELSE tbl
  ELSE LET pushed == pushLine(batch, lines[1]) IN
    IF Len(pushed) >= UPDATE_BATCH_SIZE
    THEN readLines(upsert(tbl, pushed, now), <<>>, Tail(lines), now)
    ELSE readLines(tbl, pushed, Tail(lines), now)

\* A delta file is applied to the store in full.  apply keeps the file, and
\* the table before this application when the application before it was of
\* the same file.
ApplyDelta ==
  /\ apply.n < MaxApplications
  /\ \E f \in Filenames :
       /\ products' = readLines(products, <<>>, DeltaLines(f), clock)
       /\ apply' = [n |-> apply.n + 1, file |-> f, again |-> apply.file = f,
                    first |-> IF apply.file = f THEN products ELSE {}]
  /\ UNCHANGED <<dbExists, meta, fts, env, files, runs, u, imp, calls, hist>>

(***************************************************************************)
(* import.js                                                               *)
(***************************************************************************)
\* new Date().toISOString(): the instant as text (the instants are the clock's)
toISOString(t) == toString(t)

\* A start whose initialize() keeps the products.db it finds.
StartImportKeeping ==
  /\ u.pc = "idle" /\ imp.pc = "idle"
  /\ runs < MaxRuns
  /\ runs' = runs + 1
  /\ \E source \in Sources :
       imp' = [IdleImport EXCEPT !.pc = "read", !.source = source]
  /\ dbExists' = TRUE
  /\ UNCHANGED <<products, meta, fts>>
  /\ hPersisted' = {}
  /\ hCrash' = NoCrash
  /\ hLastLine' = <<>>
  /\ sel' = [NoSelection EXCEPT !.replaced = (products # {} \/ meta # <<>>)]
  /\ UNCHANGED <<env, files, u, apply, tx, tr, q, api, sem, rb, srv, h,
                 hPersistedAtStart>>

\* SOURCE_PATH exists: OpenFoodFactsDB.initialize() deletes products.db and
\* creates the empty schema, and the source is opened
StartImport ==
  /\ u.pc = "idle" /\ imp.pc = "idle"
  /\ runs < MaxRuns
  /\ runs' = runs + 1
  /\ \E source \in Sources :
       imp' = [IdleImport EXCEPT !.pc = "read", !.source = source]
  /\ dbExists' = TRUE
  /\ products' = {}
  /\ meta' = <<>>
  /\ fts' = {}
  /\ hPersisted' = {}
  /\ hCrash' = NoCrash
  /\ hLastLine' = <<>>
  /\ sel' = [NoSelection EXCEPT !.replaced = (products # {} \/ meta # <<>>)]
  /\ UNCHANGED <<env, files, u, apply, tx, tr, q, api, sem, rb, srv, h,
                 hPersistedAtStart>>

\* SOURCE_PATH does not exist: process.exit(1) before anything is touched
ImportNoSource ==
  /\ u.pc = "idle" /\ imp.pc = "idle"
  /\ runs < MaxRuns
  /\ runs' = runs + 1
  /\ imp' = [IdleImport EXCEPT !.pc = "nosource"]
  /\ UNCHANGED <<db, env, files, u, apply, calls, hist>>

\* One iteration of `for await (const line of rl)`; insert(batch) throws when
\* a product of the batch lacks a parameter of the statement
ImportLine ==
  /\ imp.pc = "read"
  /\ imp.pos < Len(imp.source)
  /\ LET pushed == pushLine(imp.batch, imp.source[imp.pos + 1])
         full == Len(pushed) >= IMPORT_BATCH_SIZE
         r == insert(products, pushed, clock)
     IN IF full /\ ~r.ok
        THEN /\ imp' = [imp EXCEPT !.pc = "failed", !.pos = @ + 1,
                                   !.totalLines = @ + 1, !.batch = pushed]
             /\ UNCHANGED <<products, hLastLine>>
        ELSE /\ products' = IF full THEN r.tbl ELSE products
             /\ imp' = [imp EXCEPT !.pos = @ + 1, !.totalLines = @ + 1,
                          !.batch = IF full THEN <<>> ELSE pushed,
                          !.importedCount = IF full THEN @ + Len(pushed) ELSE @]
             /\ hLastLine' = IF full THEN noteLines(hLastLine, pushed) ELSE hLastLine
  /\ UNCHANGED <<dbExists, meta, fts, env, files, runs, u, apply, calls, h, hPersisted,
                 hPersistedAtStart, hCrash>>

\* The stream has ended: `if (batch.length > 0) insert(batch)`
ImportLastBatch ==
  /\ imp.pc = "read"
  /\ imp.pos = Len(imp.source)
  /\ LET r == insert(products, imp.batch, clock) IN
       IF Len(imp.batch) > 0 /\ ~r.ok
       THEN /\ imp' = [imp EXCEPT !.pc = "failed"]
            /\ UNCHANGED <<products, hLastLine>>
       ELSE /\ products' = IF Len(imp.batch) > 0 THEN r.tbl ELSE products
            /\ imp' = [imp EXCEPT !.pc = "meta", !.batch = <<>>,
                                  !.importedCount = @ + Len(imp.batch)]
            /\ hLastLine' = noteLines(hLastLine, imp.batch)
  /\ UNCHANGED <<dbExists, meta, fts, env, files, runs, u, apply, calls, h, hPersisted,
                 hPersistedAtStart, hCrash>>

\* db.setMeta('last_full_import_date', new Date().toISOString())
ImportSetMeta ==
  /\ imp.pc = "meta"
  /\ meta' = setMeta(meta, LAST_FULL_IMPORT_KEY, toISOString(clock))
  /\ imp' = [imp EXCEPT !.pc = "rebuild"]
  /\ UNCHANGED <<dbExists, products, fts, env, files, runs, u, apply, calls, hist>>

\* The rebuild run from inside the read loop, before the stream has ended.
ImportRebuildEarly ==
  /\ imp.pc = "read"
  /\ imp.pos < Len(imp.source)
  /\ fts' = rebuild(products)
  /\ imp' = [imp EXCEPT !.pc = "vacuum"]
  /\ UNCHANGED <<dbExists, products, meta, env, files, runs, u, apply, calls, hist>>

\* INSERT INTO products_fts(products_fts) VALUES('rebuild')
ImportRebuild ==
  /\ imp.pc = "rebuild"
  /\ fts' = rebuild(products)
  /\ imp' = [imp EXCEPT !.pc = "vacuum"]
  /\ UNCHANGED <<dbExists, products, meta, env, files, runs, u, apply, calls, hist>>

\* VACUUM (products has an index, so the rowids are kept) and db.close()
ImportVacuum ==
  /\ imp.pc = "vacuum"
  /\ imp' = [imp EXCEPT !.pc = "done"]
  /\ UNCHANGED <<db, env, files, runs, u, apply, calls, hist>>

\* The process ends: exit code 0, or 1 from process.exit(1)
ImportExit ==
  /\ imp.pc \in {"done", "failed", "nosource"}
  /\ imp' = IdleImport
  /\ UNCHANGED <<db, env, files, runs, u, apply, calls, hist>>

\* The process is killed.
ImportCrash ==
  /\ imp.pc \in {"read", "meta", "rebuild", "vacuum"}
  /\ imp' = IdleImport
  /\ UNCHANGED <<db, env, files, runs, u, apply, calls, hist>>

(***************************************************************************)
(* db.transaction(batch => { for (product of batch) stmt.run(product) })   *)
(* of update.js and import.js, one statement at a time                     *)
(***************************************************************************)
\* The lines the batches are made of.
BatchLines == {LineX1, LineX2, LineY}

\* The batches a read loop hands to the transaction: up to size products.
Batches(size) ==
  UNION {[1..k -> {transformProduct(l) : l \in BatchLines}] : k \in 1..size}

\* The table after the statements of the transaction are kept one by one.
keptWork(tbl, work) == work

\* ROLLBACK, and the rollback of the journal when the process died inside the
\* transaction: the table is as it was at BEGIN.
rolledBack(tbl, work) == tbl

\* upsert(batch) or insert(batch) is called: BEGIN
BeginTransaction ==
  /\ ~tx.open
  /\ tx.n < MaxBatches
  /\ \E kind \in {"upsert", "insert"} :
       \E batch \in Batches(IF kind = "upsert" THEN UPDATE_BATCH_SIZE
                                               ELSE IMPORT_BATCH_SIZE) :
         tx' = [open |-> TRUE, kind |-> kind, batch |-> batch, i |-> 0,
                work |-> products, n |-> tx.n + 1, outcome |-> ""]
  /\ UNCHANGED <<db, env, files, runs, u, imp, apply, hist, tr, q, runtime>>

\* One iteration of the for loop: stmt.run(product).  A run() that throws
\* leaves the function, and better-sqlite3 rolls the transaction back.
RunStatement ==
  /\ tx.open
  /\ tx.i < Len(tx.batch)
  /\ LET product == tx.batch[tx.i + 1] IN
       IF tx.kind = "insert" /\ ~bindable(product, InsertParameters)
       THEN /\ products' = rolledBack(products, tx.work)
            /\ tx' = [tx EXCEPT !.open = FALSE, !.outcome = "thrown", !.work = {}]
       ELSE /\ tx' = [tx EXCEPT !.i = @ + 1, !.work =
                        IF tx.kind = "upsert"
                        THEN upsertRun(tx.work, product, clock)
                        ELSE insertAll(tx.work, <<product>>, clock)]
            /\ UNCHANGED products
  /\ UNCHANGED <<dbExists, meta, fts, env, files, runs, u, imp, apply, hist, tr, q, runtime>>

\* The function has returned: COMMIT
Commit ==
  /\ tx.open
  /\ tx.i = Len(tx.batch)
  /\ products' = tx.work
  /\ tx' = [tx EXCEPT !.open = FALSE, !.outcome = "committed", !.work = {}]
  /\ UNCHANGED <<dbExists, meta, fts, env, files, runs, u, imp, apply, hist, tr, q, runtime>>

\* The process is killed inside the transaction.
KillInTransaction ==
  /\ tx.open
  /\ products' = rolledBack(products, tx.work)
  /\ tx' = [tx EXCEPT !.open = FALSE, !.outcome = "killed", !.work = {}]
  /\ UNCHANGED <<dbExists, meta, fts, env, files, runs, u, imp, apply, hist, tr, q, runtime>>

(***************************************************************************)
(* Calls of transformProduct                                               *)
(***************************************************************************)
NUT == <<"n", "u", "t">>
SP == <<"s", "p">>

\* Values of code and of product_name.
Required == {Undefined, Null, Str(<<>>), Str(CodeX), Str(NUT)}

BR == <<"b", "r">>

\* Values of brands.
Brands == {Undefined, Str(<<>>), Str(BR)}

\* Values of categories_tags and of labels_tags.
Tags == {Undefined, Null, Arr(<<>>), Arr(<<SP>>), Arr(<<SP, NUT>>), Str(SP)}

AllMacros ==
  [energy_kcal_100g |-> Num(5), fat_100g |-> Num(0),
   carbohydrates_100g |-> Num(6), proteins_100g |-> Num(1)] @@ NoNutriments

\* Values of nutriments.
Macros ==
  {AllMacros, NoNutriments,
   [AllMacros EXCEPT !.energy_kcal_100g = Undefined],
   [AllMacros EXCEPT !.fat_100g = Null],
   [AllMacros EXCEPT !.proteins_100g = Undefined]}

\* Values of completeness, in tenths.
Completenesses == {Undefined, Null, Num(0), Num(5), Num(8), Num(9), Num(10)}

\* The lines transformProduct is called with.
TransformLines ==
  {EmptyLine, MalformedLine, NullLine, ScalarLine,
   LineX1, LineX2, LineY, LineZ, LineNoName}
  \cup {JsonLine([code |-> c, product_name |-> n] @@ NoFields) :
          c \in Required, n \in Required}
  \cup {JsonLine([code |-> Str(CodeX), product_name |-> Str(NUT),
                  categories_tags |-> a, labels_tags |-> b] @@ NoFields) :
          a \in Tags, b \in Tags}
  \cup {JsonLine([code |-> Str(CodeX), product_name |-> Str(NUT), brands |-> b,
                  categories_tags |-> c, labels_tags |-> l] @@ NoFields) :
          b \in Brands, c \in {Undefined, Arr(<<SP, NUT>>)},
          l \in {Arr(<<>>), Arr(<<NUT>>)}}
  \cup {JsonLine([code |-> Str(CodeX), product_name |-> Str(NUT),
                  hasNutriments |-> m # NoNutriments, nutriments |-> m,
                  completeness |-> c] @@ NoFields) :
          m \in Macros, c \in Completenesses}

\* const product = transformProduct(line)
Transform ==
  /\ tr.n = 0
  /\ \E line \in TransformLines :
       tr' = [n |-> 1, line |-> line, first |-> transformProduct(line)]
  /\ UNCHANGED <<db, env, files, runs, u, imp, apply, hist, tx, q, runtime>>

(***************************************************************************)
(* rebuild-fts.js and calls of search                                      *)
(***************************************************************************)
\* rebuildFTS(): products_fts is dropped, created again and filled from the
\* products table.
RebuildFTS ==
  /\ dbExists
  /\ u.pc = "idle" /\ imp.pc = "idle"
  /\ fts' = rebuild(products)
  /\ UNCHANGED <<dbExists, products, meta, env, files, runs, u, imp, apply, calls, hist>>

\* The terms search is called with.
Terms ==
  {Undefined, Null, Num(5), Str(<<>>), Str(<<" ">>), Str(<<"\t", " ">>),
   Str(<<"c", "o">>), Str(<<" ", "n", "u", "t", "\t", "1", "1", " ">>),
   Str(<<"2", "2">>), Str(<<"z", "z">>), Str(<<"n", "u", "t", DQ, "b">>)}

\* The limits search is called with: none, or an integer.
Limits == {Undefined} \cup {Num(n) : n \in {-1, 0, 1, 2, 100, 101, 1000}}

\* The values of completeOnly search is called with.
CompleteOnlys == {Undefined, Bool(TRUE), Bool(FALSE)}

\* The query search(term, { limit, completeOnly }) runs, if it runs one.
hitsOf(term, completeOnly) ==
  IF isBlank(term) \/ ~parseQuery(ftsTermOf(term.s)).ok THEN {}
  ELSE hits(products, fts, parseQuery(ftsTermOf(term.s)).phrases,
            IF completeOnly = Undefined THEN TRUE ELSE Truthy(completeOnly))

\* db.search(term, { limit, completeOnly })
Search ==
  /\ dbExists
  /\ q.n = 0
  /\ \E term \in Terms, limit \in Limits, completeOnly \in CompleteOnlys :
       \E rank \in Rankings(hitsOf(term, completeOnly)) :
         q' = [n |-> 1, term |-> term, limit |-> limit, completeOnly |-> completeOnly,
               rank |-> rank,
               out |-> search(products, fts, term, limit, completeOnly, rank)]
  /\ UNCHANGED <<db, env, files, runs, u, imp, apply, hist, tx, tr, runtime>>

RECURSIVE processDeltaFiles(_, _, _)
\* The table after the deltas are processed one after the other.
processDeltaFiles(tbl, deltas, now) ==
  IF deltas = <<>> THEN tbl
  ELSE processDeltaFiles(readLines(tbl, <<>>, DeltaLines(deltas[1].filename), now),
                         Tail(deltas), now)

\* A run of update.js from start to exit with no failure: the new deltas of
\* the index are applied in order and the watermark is the end of the last.
RunUpdate ==
  /\ dbExists
  /\ u.pc = "idle" /\ imp.pc = "idle"
  /\ \E deltas \in {newDeltas(index, lastTimestampOf(meta)) : index \in Indexes} :
       /\ deltas # <<>>
       /\ products' = processDeltaFiles(products, deltas, clock)
       /\ meta' = setMeta(meta, LAST_DELTA_KEY, watermarkOf(deltas[Len(deltas)]))
  /\ UNCHANGED <<dbExists, fts, env, files, runs, u, imp, apply, calls, hist>>

\* A run of update.js from start to exit with no failure, over any manifest:
\* the deltas it selects are fetched and applied in order, each followed by
\* the watermark; with none selected it returns at once.
SyncManifest ==
  /\ dbExists
  /\ u.pc = "idle" /\ imp.pc = "idle"
  /\ \E index \in Manifests :
       \E deltas \in {newDeltas(index, lastTimestampOf(meta))} :
         /\ sel' = [ran |-> TRUE, replaced |-> sel.replaced, index |-> index,
                    lastTimestamp |-> lastTimestampOf(meta),
                    fetched |-> [i \in 1..Len(deltas) |-> deltas[i].filename]]
         /\ products' = processDeltaFiles(products, deltas, clock)
         /\ meta' = IF deltas = <<>> THEN meta
                    ELSE setMeta(meta, LAST_DELTA_KEY, watermarkOf(deltas[Len(deltas)]))
  /\ UNCHANGED <<dbExists, fts, env, files, runs, u, imp, apply, hist, tx, tr, q,
                 api, sem, rb, srv>>

(***************************************************************************)
(* rebuild-fts.js, statement by statement.  Each db.exec is a statement of *)
(* its own in autocommit mode: it takes effect as a whole or, when it      *)
(* fails, not at all.                                                      *)
(***************************************************************************)
\* What a rebuild step leaves alone.
rebuildFrame ==
  UNCHANGED <<dbExists, products, meta, env, files, runs, u, imp, apply, hist,
              tx, tr, q, api, sem, sel, srv>>

\* The step is done and the next one is due.
stepped(step, next) ==
  [rb EXCEPT !.pc = next, !.done = Append(rb.done, step)]

\* rebuildFTS(): the database file exists; it is opened read-write.
StartRebuild ==
  /\ dbExists
  /\ u.pc = "idle" /\ imp.pc = "idle"
  /\ rb.pc \in {"idle", "closed"}
  /\ rb' = [rb EXCEPT !.pc = "drop", !.done = <<>>, !.error = FALSE]
  /\ UNCHANGED fts
  /\ rebuildFrame

\* A drop that takes the content table with it.
DropTableAndContent ==
  /\ rb.pc = "drop"
  /\ fts' = {}
  /\ products' = {}
  /\ rb' = [stepped("drop", "create") EXCEPT !.table = FALSE]
  /\ UNCHANGED <<dbExists, meta, env, files, runs, u, imp, apply, hist,
                 tx, tr, q, api, sem, sel, srv>>

\* Step 1: DROP TABLE IF EXISTS products_fts.  The table has content='products':
\* it holds the index only, and the content table stays.
DropTable ==
  /\ rb.pc = "drop"
  /\ fts' = {}
  /\ rb' = [stepped("drop", "create") EXCEPT !.table = FALSE]
  /\ rebuildFrame

\* Step 2: CREATE VIRTUAL TABLE products_fts, with an empty index.
CreateTable ==
  /\ rb.pc = "create"
  /\ fts' = {}
  /\ rb' = [stepped("create", "repopulate") EXCEPT !.table = TRUE]
  /\ rebuildFrame

\* Step 3: INSERT INTO products_fts(rowid, id, search_text) SELECT ... FROM products
Repopulate ==
  /\ rb.pc = "repopulate"
  /\ fts' = fts \cup rebuild(products)
  /\ rb' = stepped("repopulate", "optimize")
  /\ rebuildFrame

\* Step 4: INSERT INTO products_fts(products_fts) VALUES('rebuild')
Optimize ==
  /\ rb.pc = "optimize"
  /\ fts' = rebuild(products)
  /\ rb' = stepped("optimize", "vacuum")
  /\ rebuildFrame

\* Step 5: VACUUM: the file is rewritten with the same tables and rows.
Vacuum ==
  /\ rb.pc = "vacuum"
  /\ rb' = stepped("vacuum", "close")
  /\ UNCHANGED fts
  /\ rebuildFrame

\* A statement throws (disk full, database locked, I/O error): it has no
\* effect, the catch logs the error and the steps after it are not run.
StepThrows ==
  /\ rb.pc \in {"drop", "create", "repopulate", "optimize", "vacuum"}
  /\ rb' = [rb EXCEPT !.pc = "close", !.error = TRUE]
  /\ UNCHANGED fts
  /\ rebuildFrame

\* finally: db.close()
CloseRebuild ==
  /\ rb.pc = "close"
  /\ rb' = [rb EXCEPT !.pc = "closed"]
  /\ UNCHANGED fts
  /\ rebuildFrame

(***************************************************************************)
(* server.js: the server process, its connections and its shutdown.  Two   *)
(* versions: the older one listens as soon as it is loaded, the newer one  *)
(* awaits main() first.                                                    *)
(***************************************************************************)
\* What the server process leaves alone.
serverFrame ==
  UNCHANGED <<db, env, files, runs, u, imp, apply, hist, tx, tr, q, api, sem, sel, rb>>

\* The older server.js is loaded: requiring app.js opens the store handle,
\* app.listen() starts the server and the signal handlers are registered.
LoadServer ==
  /\ srv.pc = "off"
  /\ dbExists
  /\ srv' = [srv EXCEPT !.pc = "listening", !.version = "older", !.handle = "open"]
  /\ serverFrame

\* The newer server.js is loaded: the handle comes with the require of app,
\* the signal handlers are registered and startServer() awaits main(); server
\* is still undefined.
LoadServerAwaitingMain ==
  /\ srv.pc = "off"
  /\ dbExists
  /\ srv' = [srv EXCEPT !.pc = "starting", !.version = "newer", !.handle = "open"]
  /\ serverFrame

\* main() resolves: server = app.listen(port, ...)
StartServer ==
  /\ srv.pc = "starting"
  /\ srv' = [srv EXCEPT !.pc = "listening"]
  /\ serverFrame

\* main() rejects: catch (error) { process.exit(1) }
StartServerFails ==
  /\ srv.pc = "starting"
  /\ srv' = [srv EXCEPT !.pc = "exited", !.exitCode = 1]
  /\ serverFrame

\* A client connects; a listening server accepts.
Connect(c) ==
  /\ srv.pc = "listening"
  /\ srv.conns[c] = "none"
  /\ srv' = [srv EXCEPT !.conns[c] = "idle"]
  /\ serverFrame

\* A request arrives on an open connection (a kept-alive one too, also after
\* server.close()).
Request(c) ==
  /\ srv.pc \in {"listening", "closing"}
  /\ srv.conns[c] = "idle"
  /\ srv' = [srv EXCEPT !.conns[c] = "request"]
  /\ serverFrame

\* The handler of the request reads the store through the handle and
\* responds.
Respond(c) ==
  /\ srv.pc \in {"listening", "closing"}
  /\ srv.conns[c] = "request"
  /\ srv' = [srv EXCEPT !.conns[c] = "idle",
                        !.servedClosed = @ \/ srv.handle # "open"]
  /\ serverFrame

\* The connection ends: the client closes it, also in the middle of a
\* request, or the server ends it when idle.
Disconnect(c) ==
  /\ srv.pc \in {"listening", "closing"}
  /\ srv.conns[c] # "none"
  /\ srv' = [srv EXCEPT !.conns[c] = "none"]
  /\ serverFrame

\* A shutdown that closes the handle as soon as the signal arrives.
gracefulShutdownClosingFirst ==
  /\ srv.pc \in {"starting", "listening", "closing"}
  /\ srv.signals < MaxSignals
  /\ srv' = IF srv.pc = "starting"
            THEN [srv EXCEPT !.signals = @ + 1, !.pc = "exited", !.exitCode = 0]
            ELSE [srv EXCEPT !.signals = @ + 1, !.pc = "closing", !.handle = "closed"]
  /\ serverFrame

\* SIGINT or SIGTERM: server.close(callback) makes the server stop accepting
\* and calls back once every connection has ended; the newer version exits
\* at once when server is not yet set.
gracefulShutdown ==
  /\ srv.pc \in {"starting", "listening", "closing"}
  /\ srv.signals < MaxSignals
  /\ srv' = IF srv.pc = "starting"
            THEN [srv EXCEPT !.signals = @ + 1, !.pc = "exited", !.exitCode = 0]
            ELSE [srv EXCEPT !.signals = @ + 1, !.pc = "closing"]
  /\ serverFrame

\* The callback of server.close(): no connection is left; db.close() and
\* process.exit(0) run in the same turn.
closeCallback ==
  /\ srv.pc = "closing"
  /\ \A c \in Connections : srv.conns[c] = "none"
  /\ srv' = [srv EXCEPT !.stopped = TRUE, !.handle = "closed",
                        !.pc = "exited", !.exitCode = 0]
  /\ serverFrame

\* The process is started again.
Restart ==
  /\ srv.pc = "exited"
  /\ srv' = ServerOff
  /\ serverFrame

(***************************************************************************)
(* The API process: api/app.js is loaded, then requests are served         *)
(***************************************************************************)
\* A start that initializes the store when products.db is missing.
StartApiInitializing ==
  /\ api.pc = "down"
  /\ api' = [api EXCEPT !.pc = "up"]
  /\ dbExists' = TRUE
  /\ UNCHANGED <<products, meta, fts, env, files, runs, u, imp, apply, hist,
                 tx, tr, q, sem, aux>>

\* Loading app.js: new OpenFoodFactsDB({ readonly: true }) throws when
\* products.db is missing, and the process exits with status 1; otherwise the
\* routes are registered and the application serves.
StartApi ==
  /\ api.pc = "down"
  /\ api' = IF dbExists THEN [api EXCEPT !.pc = "up"]
            ELSE [api EXCEPT !.pc = "exited", !.exitCode = 1]
  /\ UNCHANGED <<db, env, files, runs, u, imp, apply, hist, tx, tr, q, sem, aux>>

\* The codes of the requests: two that deltas carry and one that none does.
RequestCodes == {Str(CodeX), Str(CodeY), Str(<<"0", "0">>)}

\* The terms of the requests (decoded from the URL).
RequestTerms ==
  {Str(<<"c", "o">>), Str(<<"n", "u", "t", " ", "b">>), Str(<<"z", "z">>),
   Str(<<" ">>), Str(<<"c", "o", DQ, "l">>)}

\* The values of the query parameter limit: absent, empty, or a text.
RequestLimits ==
  {Undefined, Str(<<>>), Str(<<"1">>), Str(<<"2">>), Str(<<"1", "0", "0">>),
   Str(<<"1", "0", "1">>), Str(<<"0">>), Str(<<MINUS, "1">>), Str(<<"a">>),
   Str(<<"2", "a">>)}

\* The values of the query parameter completeOnly.
RequestCompleteOnlys ==
  {Undefined, Str(TRUE_TEXT), Str(<<"f", "a", "l", "s", "e">>), Str(<<"1">>)}

\* The rows the query of GET /search/:term selects, if it runs one.
requestHits(term, query) ==
  IF ~Truthy(term) \/ isInvalidLimit(limitOf(query)) THEN {}
  ELSE hitsOf(term, Bool(completeOnlyOf(query)))

\* GET /product/:code
GetProduct ==
  /\ api.pc = "up"
  /\ api.req = NoRequest
  /\ \E code \in RequestCodes :
       api' = [api EXCEPT !.served = TRUE,
                          !.req = [route |-> "product", param |-> code,
                                   query |-> NoQueryParameters, rank |-> <<>>],
                          !.res = getProduct(products, code)]
  /\ UNCHANGED <<db, env, files, runs, u, imp, apply, hist, tx, tr, q, sem, aux>>

\* GET /search/:term
GetSearch ==
  /\ api.pc = "up"
  /\ api.req = NoRequest
  /\ \E term \in RequestTerms, limit \in RequestLimits,
        completeOnly \in RequestCompleteOnlys :
       LET query == [limit |-> limit, completeOnly |-> completeOnly] IN
         \E rank \in Rankings(requestHits(term, query)) :
           api' = [api EXCEPT !.served = TRUE,
                              !.req = [route |-> "search", param |-> term,
                                       query |-> query, rank |-> rank],
                              !.res = getSearch(products, fts, term, query, rank)]
  /\ UNCHANGED <<db, env, files, runs, u, imp, apply, hist, tx, tr, q, sem, aux>>

\* A handler of GET / that records the time of the request in the store.
GetRootStamping ==
  /\ api.pc = "up"
  /\ api.req = NoRequest
  /\ api' = [api EXCEPT !.served = TRUE,
                        !.req = [route |-> "root", param |-> Undefined,
                                 query |-> NoQueryParameters, rank |-> <<>>],
                        !.res = getRoot]
  /\ meta' = setMeta(meta, "last_request", toString(clock))
  /\ UNCHANGED <<dbExists, products, fts, env, files, runs, u, imp, apply, hist,
                 tx, tr, q, sem, aux>>

\* GET /
GetRoot ==
  /\ api.pc = "up"
  /\ api.req = NoRequest
  /\ api' = [api EXCEPT !.served = TRUE,
                        !.req = [route |-> "root", param |-> Undefined,
                                 query |-> NoQueryParameters, rank |-> <<>>],
                        !.res = getRoot]
  /\ UNCHANGED <<db, env, files, runs, u, imp, apply, hist, tx, tr, q, sem, aux>>

\* The response is sent ('finish'): the next request is handled.
Finish ==
  /\ api.pc = "up"
  /\ api.req # NoRequest
  /\ api' = [api EXCEPT !.req = NoRequest, !.res = NoResponse]
  /\ UNCHANGED <<db, env, files, runs, u, imp, apply, hist, tx, tr, q, sem, aux>>

(***************************************************************************)
(* The newer database.js at run time: create(), the load of the model,     *)
(* search and semanticSearch                                               *)
(***************************************************************************)
\* OpenFoodFactsDB.create() up to its await: new Database(...) throws when
\* products.db is missing; otherwise getInstance() runs and the caller awaits
\* the promise it returned.
Create(c) ==
  /\ sem.callers[c].pc = "idle"
  /\ sem' =
       IF ~dbExists THEN [sem EXCEPT !.callers[c].pc = "threw"]
       ELSE LET s == getInstance([instance |-> sem.instance, loads |-> sem.loads]) IN
         [sem EXCEPT !.instance = s.instance,
                     !.loads = s.loads,
                     !.settled = IF s.loads > sem.loads THEN Append(@, "pending") ELSE @,
                     !.callers[c] = [pc |-> "awaiting", got |-> s.instance]]
  /\ UNCHANGED <<db, env, files, runs, u, imp, apply, hist, tx, tr, q, api, aux>>

\* The promise of a load settles: the model is loaded, or the load fails.
Settle(load, outcome) ==
  /\ load \in 1..Len(sem.settled)
  /\ sem.settled[load] = "pending"
  /\ sem' = [sem EXCEPT !.settled[load] = outcome]
  /\ UNCHANGED <<db, env, files, runs, u, imp, apply, hist, tx, tr, q, api, aux>>

\* create() after its await: new OpenFoodFactsDB(db, embedder), or the
\* rejection of the load.
Construct(c) ==
  /\ sem.callers[c].pc = "awaiting"
  /\ sem.settled[sem.callers[c].got] # "pending"
  /\ sem' = [sem EXCEPT !.callers[c].pc =
                          IF sem.settled[sem.callers[c].got] = "resolved"
                          THEN "ready" ELSE "threw"]
  /\ UNCHANGED <<db, env, files, runs, u, imp, apply, hist, tx, tr, q, api, aux>>

\* The terms, limits and filters of the calls.
SemanticTerms == {Str(<<"c", "o">>), Str(<<" ">>), Str(<<"z", "z">>)}
SemanticLimits == {Undefined, Num(1)}

\* The rows stmtSearch selects for the call, if it runs.
hitsNewer(term, completeOnly) ==
  IF isBlank(term) \/ statementOf(completeOnly) \notin PreparedStatements
       \/ ~parseQuery(ftsTermOf(term.s)).ok
  THEN {}
  ELSE hitsById(products, fts, parseQuery(ftsTermOf(term.s)).phrases)

\* search(term, { limit, completeOnly }) on an object create() returned
SearchNewer(c) ==
  /\ sem.callers[c].pc = "ready"
  /\ sem.call = NoSemanticCall
  /\ \E term \in SemanticTerms, limit \in SemanticLimits, completeOnly \in CompleteOnlys :
       \E rank \in Rankings(hitsNewer(term, completeOnly)) :
         sem' = [sem EXCEPT !.call =
                   [kind |-> "search", term |-> term, limit |-> limit,
                    completeOnly |-> completeOnly, embedderFails |-> FALSE,
                    rank |-> rank,
                    out |-> searchNewer(products, fts, term, limit, completeOnly, rank)]]
  /\ UNCHANGED <<db, env, files, runs, u, imp, apply, hist, tx, tr, q, api, aux>>

\* semanticSearch(term, { limit }) on an object create() returned: the
\* embedder gives a vector or fails, and the rows of products come back
\* nearest first.
SemanticSearch(c) ==
  /\ sem.callers[c].pc = "ready"
  /\ sem.call = NoSemanticCall
  /\ \E term \in SemanticTerms, limit \in SemanticLimits, embedderFails \in BOOLEAN :
       \E nearest \in Rankings(IF isBlank(term) \/ embedderFails THEN {}
                               ELSE {p.rowid : p \in products}) :
         sem' = [sem EXCEPT !.call =
                   [kind |-> "semanticSearch", term |-> term, limit |-> limit,
                    completeOnly |-> Undefined, embedderFails |-> embedderFails,
                    rank |-> nearest,
                    out |-> semanticSearch(products, term, limit, embedderFails, nearest)]]
  /\ UNCHANGED <<db, env, files, runs, u, imp, apply, hist, tx, tr, q, api, aux>>

\* The call returns (or its error reaches the caller): the next call is made.
Return ==
  /\ sem.call # NoSemanticCall
  /\ sem' = [sem EXCEPT !.call = NoSemanticCall]
  /\ UNCHANGED <<db, env, files, runs, u, imp, apply, hist, tx, tr, q, api, aux>>

(***************************************************************************)
(* The environment                                                         *)
(***************************************************************************)
\* Time passes.
Tick ==
  /\ clock < MaxClock
  /\ clock' = clock + 1
  /\ UNCHANGED <<db, files, runs, u, imp, apply, calls, hist>>

\* Before the first import: there is no products.db.
Init ==
  /\ dbExists = FALSE
  /\ products = {}
  /\ meta = <<>>
  /\ fts = {}
  /\ clock = 0
  /\ files = {}
  /\ runs = 0
  /\ u = IdleUpdate
  /\ imp = IdleImport
  /\ apply = NoApplication
  /\ tx = NoTransaction
  /\ tr = NoCall
  /\ q = NoQuery
  /\ api = ApiDown
  /\ sem = NoEmbedder
  /\ sel = NoSelection
  /\ rb = IdleRebuild
  /\ srv = ServerOff
  /\ h = NoRun
  /\ hPersisted = {}
  /\ hPersistedAtStart = {}
  /\ hCrash = NoCrash
  /\ hLastLine = <<>>

NextSync ==
  \/ StartUpdate
  \/ DownloadIndex
  \/ DownloadIndexFails
  \/ DownloadDelta
  \/ DownloadDeltaFails
  \/ Decompress
  \/ DecompressCorrupt
  \/ DecompressWriteFails
  \/ ReadLine
  \/ EndOfFile
  \/ Cleanup
  \/ SetWatermark
  \/ ExitUpdate
  \/ CrashUpdate
  \/ Tick

\* The delta synchronizer alone, over an initialized store.
SpecSync == InitSync /\ [][NextSync]_vars

NextApply ==
  \/ ApplyDelta
  \/ Tick

\* Delta files applied in full, one after the other, to an initialized store.
SpecApply == InitSync /\ [][NextApply]_vars

NextImport ==
  \/ StartImport
  \/ ImportNoSource
  \/ ImportLine
  \/ ImportLastBatch
  \/ ImportSetMeta
  \/ ImportRebuild
  \/ ImportVacuum
  \/ ImportExit
  \/ ImportCrash
  \/ Tick

NextBatch ==
  \/ BeginTransaction
  \/ RunStatement
  \/ Commit
  \/ KillInTransaction

\* Write batches of both scripts against an initialized store, one statement
\* at a time and at one CURRENT_TIMESTAMP, with the process killed at any point.
SpecBatch == InitSync /\ [][NextBatch]_vars

NextTransform == Transform

\* One call of the transformer, with any of the lines.
SpecTransform == InitSync /\ [][NextTransform]_vars

NextSearch ==
  \/ ApplyDelta
  \/ RebuildFTS
  \/ Search

\* Deltas are applied to an initialized store, the index is rebuilt at any
\* time, and search is called.
SpecSearch == InitSync /\ [][NextSearch]_vars

NextApi ==
  \/ StartUpdateNoDb
  \/ ExitUpdate
  \/ RunUpdate
  \/ RebuildFTS
  \/ StartApi
  \/ GetProduct
  \/ GetSearch
  \/ GetRoot
  \/ Finish

\* Before the first import, or over an initialized store.
InitApi == Init \/ InitSync

\* The API process is started and serves requests while update.js runs and
\* the index is rebuilt.
SpecApi == InitApi /\ [][NextApi]_vars

NextSemantic ==
  \/ RunUpdate
  \/ RebuildFTS
  \/ \E c \in Callers : Create(c)
  \/ \E load \in 1..MaxCallers, outcome \in {"resolved", "rejected"} : Settle(load, outcome)
  \/ \E c \in Callers : Construct(c)
  \/ \E c \in Callers : SearchNewer(c)
  \/ \E c \in Callers : SemanticSearch(c)
  \/ Return

\* Processes call create() of the newer database.js concurrently and search
\* with the objects they get, while update.js runs and the index is rebuilt.
SpecSemantic == InitApi /\ [][NextSemantic]_vars

NextRebuild ==
  \/ RunUpdate
  \/ StartRebuild
  \/ DropTable
  \/ CreateTable
  \/ Repopulate
  \/ Optimize
  \/ Vacuum
  \/ StepThrows
  \/ CloseRebuild

\* rebuild-fts.js is run, one statement at a time, over a store that runs of
\* update.js fill.
SpecRebuild == InitSync /\ [][NextRebuild]_vars

NextServer ==
  \/ LoadServer
  \/ LoadServerAwaitingMain
  \/ StartServer
  \/ StartServerFails
  \/ \E c \in Connections : Connect(c)
  \/ \E c \in Connections : Request(c)
  \/ \E c \in Connections : Respond(c)
  \/ \E c \in Connections : Disconnect(c)
  \/ gracefulShutdown
  \/ closeCallback
  \/ Restart

\* A server process of either version, its clients and shutdown signals.
SpecServer == InitSync /\ [][NextServer]_vars

\* The first run of update.js over the store since it was created.
FirstSync == ~sel.ran /\ SyncManifest

NextReload ==
  \/ FirstSync
  \/ StartImport
  \/ ImportLine
  \/ ImportLastBatch
  \/ ImportSetMeta
  \/ ImportRebuild
  \/ ImportVacuum
  \/ ImportExit
  \/ ImportCrash

\* Loads, each followed by a first run of update.js over a manifest.
SpecReload == InitSync /\ [][NextReload]_vars

NextSyncAtOnce ==
  \/ StartUpdate
  \/ DownloadIndex
  \/ DownloadIndexFails
  \/ DownloadDelta
  \/ DownloadDeltaFails
  \/ Decompress
  \/ DecompressCorrupt
  \/ DecompressWriteFails
  \/ ReadLine
  \/ EndOfFile
  \/ Cleanup
  \/ SetWatermark
  \/ ExitUpdate
  \/ CrashUpdate

\* The delta synchronizer alone, step by step, at one CURRENT_TIMESTAMP.
SpecSyncAtOnce == InitSync /\ [][NextSyncAtOnce]_vars

NextManifest ==
  \/ SyncManifest

\* update.js is run, without failure, over manifests that hold lines of
\* every kind.
SpecManifest == InitSync /\ [][NextManifest]_vars

\* The bulk loader alone.
SpecImport == Init /\ [][NextImport]_vars

Next ==
  \/ StartImport
  \/ ImportNoSource
  \/ ImportLine
  \/ ImportLastBatch
  \/ ImportSetMeta
  \/ ImportRebuild
  \/ ImportVacuum
  \/ ImportExit
  \/ ImportCrash
  \/ StartUpdate
  \/ StartUpdateNoDb
  \/ DownloadIndex
  \/ DownloadIndexFails
  \/ DownloadDelta
  \/ DownloadDeltaFails
  \/ Decompress
  \/ DecompressCorrupt
  \/ DecompressWriteFails
  \/ ReadLine
  \/ EndOfFile
  \/ Cleanup
  \/ SetWatermark
  \/ ExitUpdate
  \/ CrashUpdate
  \/ Tick

\* The bulk loader and the delta synchronizer, run one at a time.
Spec == Init /\ [][Next]_vars

(***************************************************************************)
(* The delta synchronizer: order, watermark, failures                      *)
(***************************************************************************)
\* The persisted watermark, as the next run will read it.
watermark == lastTimestampOf(meta)

\* The end of the delta the run applied last in full, or the watermark it
\* started with.
lastFull == IF h.full = <<>> THEN u.lastTimestamp ELSE h.full[Len(h.full)]

\* The same one delta earlier.
prevFull == IF Len(h.full) <= 1 THEN u.lastTimestamp ELSE h.full[Len(h.full) - 1]

\* The last batch of delta u.k has committed and setMeta has not run yet.
BetweenCommitAndMark == u.pc = "mark" \/ (u.pc = "cleanup" /\ ~u.err)

\* The watermark the loop has persisted before it processes delta u.k.
boundaryBefore == IF u.k <= 1 THEN u.lastTimestamp ELSE u.newDeltas[u.k - 1].end

\* C1: within one run the deltas start being processed in ascending order of
\* their end timestamp, whatever their order in the index: no delta starts
\* after one with a strictly larger end.
C1_AscendingByEnd ==
  \A i, j \in 1..Len(h.started) :
    i < j => h.started[i].end <= h.started[j].end

\* A run that downloaded the index <<D2, D1>> has started D1 and then D2.
C1_Witness ==
  /\ h.index = <<D2, D1>>
  /\ Len(h.started) = 2
  /\ h.started[1].filename = D1
  /\ h.started[2].filename = D2

\* C2: once a delta with end E is fully applied and the watermark E is
\* persisted, no later run starts a delta whose end is <= E.
C2_NoneAtOrBelowPersisted ==
  \A i \in 1..Len(h.started) : \A E \in hPersistedAtStart : h.started[i].end > E

\* After D1 was applied with watermark 100, a later run over <<D1, D2>> has
\* finished having started D2 only.
C2_Witness ==
  /\ hPersistedAtStart = {100}
  /\ h.index = <<D1, D2>>
  /\ u.pc = "done"
  /\ Len(h.started) = 1
  /\ h.started[1].filename = D2

\* C3: the watermark is written with delta k's end after k's last batch has
\* committed and before the fetch of delta k+1 begins; at every point of a run
\* it equals the end of the most recently fully applied delta (the value at
\* the start of the run when there is none), the write itself being the one
\* step between the last commit of a delta and the next fetch.
C3_WatermarkFollowsFullyApplied ==
  u.pc # "idle" =>
    /\ \A i \in 1..Len(h.full) : h.full[i] = u.newDeltas[i].end
    /\ watermark = IF BetweenCommitAndMark THEN prevFull ELSE lastFull
    /\ u.pc = "mark" => Len(h.full) = u.k /\ Len(h.started) = u.k
    /\ u.pc = "download" => Len(h.started) = u.k - 1 /\ watermark = boundaryBefore

\* D1 is applied, the watermark is 100, and the fetch of D2 has not begun.
C3_Witness ==
  /\ u.pc = "download"
  /\ u.k = 2
  /\ h.full = <<100>>
  /\ watermark = 100
  /\ u.lastTimestamp = 0

\* C4: over any sequence of runs, completed, failed or crashed, the persisted
\* watermark never decreases.
C4_WatermarkNeverDecreases ==
  [][lastTimestampOf(meta') >= lastTimestampOf(meta)]_vars

\* A second run has raised the watermark from 100 to 200.
C4_Witness ==
  /\ hPersistedAtStart = {100}
  /\ u.lastTimestamp = 100
  /\ watermark = 200

\* C5: a crash while delta k is processed leaves the watermark at the end of
\* delta k-1 (or the run's starting value), and the next run over the same
\* index selects delta k again.
C5_CrashedDeltaSelectedAgain ==
  hCrash.set =>
    /\ watermark = hCrash.w
    /\ (u.pc \in {"download", "done"} /\ h.index = hCrash.index)
         => \E i \in 1..Len(u.newDeltas) : u.newDeltas[i].filename = hCrash.file

\* The next run over the same index has made its selection after a crash in
\* the second of two deltas.
C5_Witness ==
  /\ hCrash.set
  /\ hCrash.w = 100
  /\ u.pc = "download"
  /\ h.index = hCrash.index
  /\ u.newDeltas[1].filename = hCrash.file

\* C6: when the fetch or the decoding of delta k fails, the run goes on to no
\* later delta and ends in failure, and the watermark keeps the value
\* persisted for delta k-1.
C6_FailureStopsTheRun ==
  h.failed # 0 =>
    /\ u.pc \in {"cleanup", "failed"}
    /\ u.k = h.failed
    /\ Len(h.started) = h.failed
    /\ \A i \in 1..Len(h.started) : h.started[i] = u.newDeltas[i]
    /\ Len(h.full) = h.failed - 1
    /\ watermark = boundaryBefore

\* The run has ended in failure on the second of two deltas, the watermark
\* being the first one's end.
C6_Witness ==
  /\ u.pc = "failed"
  /\ h.failed = 2
  /\ Len(u.newDeltas) >= 2
  /\ watermark = 100
  /\ u.lastTimestamp = 0

\* C8: every stored record equals, in every attribute the transformer
\* produces, the transformer's output for the last line written for its id:
\* after D1 and then D2, X holds nothing of D1's line.
C8_FullRecordReplace ==
  \A r \in products :
    /\ r.id \in DOMAIN hLastLine
    /\ LET written == transformProduct(hLastLine[r.id])
       IN \A k \in ProductKeys : r[k] = written[k]

\* D1 and then D2 have been applied in one run: X is D2's line, with no brand.
C8_Witness ==
  /\ h.full = <<100, 200>>
  /\ \E r \in products :
       /\ r.id = Str(CodeX)
       /\ hLastLine[Str(CodeX)] = LineX2
       /\ r.brands = Null
       /\ r.energy_kcal = Null
       /\ transformProduct(LineX1).brands # Null

\* C9: when a sync run completes, the lexical index holds one entry per
\* stored record, with that record's current search_text.
C9_IndexConsistentAfterSync ==
  u.pc = "done" => fts = rebuild(products)

\* A run over <<D1>> has completed: X is stored and the index is empty.
C9_Witness ==
  /\ u.pc = "done"
  /\ h.index = <<D1>>
  /\ h.full = <<100>>
  /\ \E r \in products : r.id = Str(CodeX)
  /\ fts = {}


(***************************************************************************)
(* Applying a delta twice                                                  *)
(***************************************************************************)
\* The columns SQLite fills with CURRENT_TIMESTAMP.
Timestamps == {"created_at", "updated_at"}

\* The rows of tbl without the columns cols.
without(tbl, cols) == {[k \in DOMAIN r \ cols |-> r[k]] : r \in tbl}

\* C7: a delta file applied twice in succession leaves the same records as
\* applied once, with the same value in every column except created_at and
\* updated_at, which the second application sets anew.
C7_TwiceIsOnceButTimestamps ==
  apply.again =>
    /\ Cardinality(products) = Cardinality(apply.first)
    /\ without(products, {"rowid"} \cup Timestamps)
         = without(apply.first, {"rowid"} \cup Timestamps)

\* D2 has been applied a second time, later than the first: X and Y are
\* stored as before, with new timestamps.
C7_Witness ==
  /\ apply.again
  /\ apply.file = D2
  /\ Cardinality(apply.first) = 2
  /\ \E r \in products : \E o \in apply.first :
       r.id = o.id /\ r.product_name = o.product_name /\ r.updated_at # o.updated_at

\* C7 as stated: after the second application every attribute of every record
\* is what it was after the first.
C7_TwiceIsOnce ==
  apply.again => without(products, {"rowid"}) = without(apply.first, {"rowid"})

(***************************************************************************)
(* The bulk loader                                                         *)
(***************************************************************************)
RECURSIVE validProducts(_)
\* The transformer's records for the valid lines, in order.
validProducts(lines) ==
  IF lines = <<>> THEN <<>>
  ELSE pushLine(validProducts(DropLast(lines, 1)), lines[Len(lines)])

\* C10: a bulk load over a source completes, whatever lines the source has,
\* and leaves exactly one record per code of a valid line, equal to the
\* transformer's output for the last valid line with that code.
C10_LoadStoresLastValidLines ==
  imp.pc \in {"failed", "done"} =>
    /\ imp.pc = "done"
    /\ LET lastLine == noteLines(<<>>, validProducts(imp.source)) IN
         /\ {r.id : r \in products} = DOMAIN lastLine
         /\ Cardinality(products) = Cardinality(DOMAIN lastLine)
         /\ \A r \in products :
              LET written == transformProduct(lastLine[r.id])
              IN \A k \in ProductKeys : r[k] = written[k]

\* A load over a malformed line and a valid line for X has ended in failure
\* with nothing stored.
C10_Witness ==
  /\ imp.pc = "failed"
  /\ imp.source = <<MalformedLine, LineX1>>
  /\ products = {}
  /\ meta = <<>>

\* The rebuild statement of the running load has been executed.
rebuilt == imp.pc \in {"vacuum", "done"}

lastOfId(batch) ==
  [id \in {batch[i].id : i \in 1..Len(batch)} |->
     batch[CHOOSE i \in 1..Len(batch) :
             batch[i].id = id /\ \A j \in i + 1..Len(batch) : batch[j].id # id]]

\* after holds every record of the batch, and the rows of before whose id is
\* not in the batch.
reflectsAll(before, after, batch) ==
  LET last == lastOfId(batch) IN
    /\ \A id \in DOMAIN last :
         /\ Cardinality({r \in after : r.id = id}) = 1
         /\ \A r \in after : r.id = id => \A k \in ProductKeys : r[k] = last[id][k]
    /\ {r \in after : r.id \notin DOMAIN last} = {r \in before : r.id \notin DOMAIN last}

\* C12: the table a reader sees changes only at the commit of a batch, and
\* then it holds every record of that batch together with the rows committed
\* before (what upsert(batch) yields in one step); when the batch ends by a thrown statement or by the death of the
\* process, at any statement, the table is what it was: none of the batch,
\* and all of the batches committed before.
C12_BatchAllOrNothing ==
  [][/\ products' # products =>
          /\ tx.open /\ tx'.outcome = "committed"
          /\ reflectsAll(products, products', tx.batch)
          /\ tx.kind = "upsert" => products' = upsert(products, tx.batch, clock)
     /\ (tx.open /\ tx'.outcome \in {"thrown", "killed"}) => products' = products
     /\ (tx.open /\ tx'.outcome = "committed") =>
          reflectsAll(products, products', tx.batch)]_vars

\* A second batch of two records was cut off by the death of the process
\* after its first statement had run: the store holds the first batch, whole,
\* and nothing of the second.
C12_Witness ==
  /\ tx.n = 2
  /\ tx.outcome = "killed"
  /\ tx.i = 1
  /\ Len(tx.batch) = 2
  /\ tx.batch[1].id = Str(CodeY)
  /\ {r.id : r \in products} = {Str(CodeX)}

(***************************************************************************)
(* The temporary files of the synchronizer                                 *)
(***************************************************************************)
\* The processing of the delta the run started last has ended.
processingEnded == u.pc \in {"mark", "download", "done", "failed"}

\* The downloaded file and the decompressed file of delta d.
artifacts(d) == {localPath(d.filename), localJsonlPath(d.filename)}

\* C13: once the processing of a delta the run started has ended, by success,
\* by a transfer failure or by a decode failure, neither its downloaded
\* compressed file nor its decompressed file exists.
C13_ArtifactsGoneWhenEnded ==
  \A i \in 1..Len(h.started) :
    (i < Len(h.started) \/ processingEnded) => artifacts(h.started[i]) \cap files = {}

\* The run ended on the corrupt gzip data of its first delta, D1: the
\* downloaded d_0_100.json.gz and a partly written d_0_100.json are still there.
C13_Witness ==
  /\ u.pc = "failed"
  /\ h.failed = 1
  /\ Len(h.started) = 1
  /\ h.started[1].filename = D1
  /\ artifacts(h.started[1]) \subseteq files

(***************************************************************************)
(* The transformer                                                         *)
(***************************************************************************)
\* The line decodes, and the decoded value has a code and a name (neither
\* missing, null nor empty).
codeAndNamePresent(line) ==
  /\ line.kind \in {"object", "scalar"}
  /\ LET p == IF line.kind = "object" THEN line.p ELSE NoFields IN
       /\ p.code.t = "string" /\ p.code.s # <<>>
       /\ p.product_name.t = "string" /\ p.product_name.s # <<>>

\* categories_tags and labels_tags of the decoded object are each missing,
\* null or a list.
tagsAreLists(line) ==
  \A v \in {line.p.categories_tags, line.p.labels_tags} :
    v.t \in {"undefined", "null", "array"}

macrosComplete(p) ==
  /\ \A k \in {"energy_kcal_100g", "fat_100g", "carbohydrates_100g", "proteins_100g"} :
       p.hasNutriments /\ p.nutriments[k].t = "number"
  /\ p.completeness.t = "number"
  /\ p.completeness.n > COMPLETENESS_THRESHOLD

\* The completeness the rule gives the record of p: 1.0 when the macros are
\* complete, else the source completeness, 0 when absent.
normalizedCompleteness(p) ==
  IF macrosComplete(p) THEN Num(COMPLETENESS_FULL)
  ELSE IF p.completeness.t = "number" THEN p.completeness
  ELSE Num(0)

\* C15: a Record the transformer returns carries complete_macros, true if
\* and only if the four macro nutrients are present in the line and its
\* completeness is above 0.8; its completeness is 1.0 in that case, and the
\* source completeness (0 when absent) otherwise.
C15_RecordCarriesCompleteMacros ==
  (tr.n > 0 /\ tr.first # Null) =>
    /\ "complete_macros" \in DOMAIN tr.first
    /\ (tr.first.complete_macros = TRUE) <=> macrosComplete(tr.line.p)
    /\ tr.first.completeness = normalizedCompleteness(tr.line.p)

\* The Record of a line with the four macros and completeness 0.9 has
\* completeness 1.0 and no complete_macros.
C15_Witness ==
  /\ tr.n > 0
  /\ tr.first # Null
  /\ macrosComplete(tr.line.p)
  /\ tr.line.p.completeness = Num(9)
  /\ tr.first.completeness = Num(COMPLETENESS_FULL)
  /\ "complete_macros" \notin DOMAIN tr.first

\* The completeness of every Record follows the rule.
CompletenessFollowsRule ==
  (tr.n > 0 /\ tr.first # Null) =>
    tr.first.completeness = normalizedCompleteness(tr.line.p)

(***************************************************************************)
(* The stored records                                                      *)
(***************************************************************************)
\* C16: every stored record has complete_macros set, to 1 if and only if the
\* line it was last written from has the four macro nutrients and a
\* completeness above 0.8, and to 0 otherwise; a record written by a delta
\* upsert too.
C16_StoredCompleteMacrosFollowsRule ==
  \A r \in products :
    /\ r.complete_macros \in {Num(0), Num(1)}
    /\ (r.complete_macros = Num(1)) <=> macrosComplete(hLastLine[r.id].p)

\* After a load and a run of the synchronizer over D1, X is stored from a
\* line with the four macros and completeness 0.9, with completeness 1.0
\* and complete_macros NULL.
C16_Witness ==
  /\ u.pc = "done"
  /\ h.index = <<D1>>
  /\ \E r \in products :
       /\ r.id = Str(CodeX)
       /\ hLastLine[r.id] = LineX1
       /\ macrosComplete(LineX1.p)
       /\ r.completeness = Num(COMPLETENESS_FULL)
       /\ r.complete_macros = Null

\* C17: every stored record has a non-empty code and a non-empty name, its id
\* is its code, and no two stored records have the same id.
C17_StoredRecordsWellFormed ==
  /\ \A r \in products :
       /\ r.code.t = "string" /\ r.code.s # <<>>
       /\ r.product_name.t = "string" /\ r.product_name.s # <<>>
       /\ r.id = r.code
  /\ \A r1, r2 \in products : r1.id = r2.id => r1 = r2

\* A run over D1 and D2 has ended: X was written twice and is stored once,
\* Y is stored, and the line of D2 with a code and no name left no record.
C17_Witness ==
  /\ u.pc = "done"
  /\ h.index = <<D1, D2>>
  /\ h.full = <<100, 200>>
  /\ {r.id : r \in products} = {Str(CodeX), Str(CodeY)}
  /\ Cardinality(products) = 2

(***************************************************************************)
(* Search                                                                  *)
(***************************************************************************)
\* The term is not a string, or is a string of whitespace only (the empty
\* string included).
blankTerm(term) ==
  term.t # "string" \/ \A i \in 1..Len(term.s) : term.s[i] \in Whitespace

\* C19: search called with a term that is not a string, is empty or is made
\* of whitespace only returns the empty sequence, runs no query on the index
\* and raises no error, whatever limit and completeOnly are.
C19_BlankTermReturnsEmpty ==
  (q.n > 0 /\ blankTerm(q.term)) =>
    /\ q.out.rows = <<>>
    /\ ~q.out.queried
    /\ ~q.out.threw

\* With X, Y and Z stored and indexed, search was called with a tab and a
\* blank as the term, limit 2 and completeOnly false, and returned nothing
\* without a query.
C19_Witness ==
  /\ q.n > 0
  /\ q.term = Str(<<"\t", " ">>)
  /\ q.limit = Num(2)
  /\ q.completeOnly = Bool(FALSE)
  /\ {e.id : e \in fts} = {Str(CodeX), Str(CodeY), Str(CodeZ)}
  /\ {r.rowid : r \in products} = {e.rowid : e \in fts}
  /\ q.out.rows = <<>>
  /\ ~q.out.queried

\* min(max(limit, 1), 100)
clamped(limit) ==
  LET atLeastOne == IF limit > 1 THEN limit ELSE 1
  IN IF atLeastOne < 100 THEN atLeastOne ELSE 100

\* The rows of products with the rowids of rank, in that order.
ranked(rank) == [i \in 1..Len(rank) |-> CHOOSE p \in products : p.rowid = rank[i]]

\* C20: a call of search with an integer limit returns what the call with
\* the limit min(max(limit, 1), 100) returns, on the same store and with the
\* same ranking: the first min(max(limit, 1), 100) rows of the ranked matches
\* and no more, that number being the LIMIT of the query.
C20_LimitClamped ==
  [][(q.n = 0 /\ q'.n = 1 /\ q'.limit # Undefined) =>
       LET c == clamped(q'.limit.n) IN
         /\ q'.out = search(products, fts, q'.term, Num(c), q'.completeOnly, q'.rank)
         /\ Len(q'.out.rows) <= c
         /\ q'.out.queried =>
              /\ q'.out.limit = c
              /\ q'.out.rows = limited(ranked(q'.rank), c)]_vars

\* With X, Y (cola) and Z (cod) stored and indexed, search("co") with limit 0
\* and completeOnly false matched both and returned one row, the first of
\* the ranking.
C20_Witness ==
  /\ q.n = 1
  /\ q.term = Str(<<"c", "o">>)
  /\ q.limit = Num(0)
  /\ q.completeOnly = Bool(FALSE)
  /\ Len(q.rank) = 2
  /\ Len(q.out.rows) = 1
  /\ q.out.rows[1].rowid = q.rank[1]
  /\ q.out.rows[1].id \in {Str(CodeY), Str(CodeZ)}

(***************************************************************************)
(* C21: GET /search/:term with an invalid limit                            *)
(***************************************************************************)
\* The text is a decimal integer: an optional sign, then digits only.
isDecimalInteger(s) ==
  LET digits == IF s # <<>> /\ s[1] \in {MINUS, PLUS} THEN Tail(s) ELSE s
  IN digits # <<>> /\ \A i \in 1..Len(digits) : digits[i] \in Digits

\* The last request was GET /search/:term with the query parameter limit.
searchWithLimit == api.req.route = "search" /\ api.req.query.limit.t = "string"

\* The last response is the rejection of the limit, made without calling
\* db.search.
limitRejected ==
  api.res.status = 400 /\ api.res.error = INVALID_LIMIT /\ ~api.res.searched

\* C21 (as stated): a GET /search/:term whose limit parameter is not a
\* number, or is a number <= 0 or > 100, is answered 400 with the error
\* 'Invalid limit parameter. Must be a positive integer <= 100.' and db.search
\* is not called for it.
C21_NonNumericLimitRejected ==
  searchWithLimit =>
    LET text == api.req.query.limit.s IN
      (~isDecimalInteger(text) \/ parseIntRadix10(text).n <= 0
         \/ parseIntRadix10(text).n > MAX_QUERY_LIMIT) => limitRejected

\* C21 (amended): a GET /search/:term whose limit parameter is not empty and
\* begins with no decimal integer, or begins with one that is <= 0 or > 100,
\* is answered 400 with that error and db.search is not called for it; a limit
\* that only begins with an integer is read as that integer, an empty one as
\* absent.
C21_InvalidLimitRejected ==
  searchWithLimit =>
    LET text == api.req.query.limit.s
        read == parseIntRadix10(text)
    IN /\ (text # <<>> /\ (read.nan \/ read.n <= 0 \/ read.n > MAX_QUERY_LIMIT))
            => limitRejected
       /\ (text # <<>> /\ ~read.nan /\ read.n \in 1..MAX_QUERY_LIMIT)
            => api.res.searched /\ api.res.status = 200
       /\ text = <<>> => api.res.searched /\ api.res.status = 200

\* A search for "co" with limit=-1 over a store that holds cola was rejected.
C21_Witness ==
  /\ searchWithLimit
  /\ api.req.param = Str(<<"c", "o">>)
  /\ api.req.query.limit = Str(<<MINUS, "1">>)
  /\ limitRejected
  /\ \E p \in products : p.id = Str(CodeY)

(***************************************************************************)
(* C22: GET /product/:code                                                 *)
(***************************************************************************)
\* A request for a product is handled in this step.
productHandled == api.req = NoRequest /\ api'.req.route = "product"

\* C22: get returns a value for every id and undefined for an absent one, and
\* GET /product/:code is answered 200 with the stored Record whose id is the
\* code when the store holds one, and 404 'Product not found' when it holds
\* none; it is never answered 500.
C22_ProductOrNotFound ==
  [][productHandled =>
       LET code == api'.req.param IN
         IF \E p \in products : p.id = code
         THEN /\ api'.res.status = 200
              /\ api'.res.product \in products
              /\ api'.res.product.id = code
         ELSE /\ get(products, code) = Undefined
              /\ api'.res.status = 404
              /\ api'.res.error = NOT_FOUND]_vars

\* A code no Record has was asked of a store that holds Records, and the
\* answer was 404.
C22_Witness ==
  /\ api.req.route = "product"
  /\ api.req.param = Str(<<"0", "0">>)
  /\ api.res.status = 404
  /\ api.res.error = NOT_FOUND
  /\ \E p \in products : p.id = Str(CodeX)
  /\ \A p \in products : p.id # api.req.param

(***************************************************************************)
(* C24: the default of the query parameter completeOnly                    *)
(***************************************************************************)
\* A search request is handled in this step.
searchHandled == api.req = NoRequest /\ api'.req.route = "search"

FALSE_TEXT == <<"f", "a", "l", "s", "e">>

\* The response is the one the handler gives the same request with
\* completeOnly=value, for some order of the rows that query selects.
respondsAs(response, request, value) ==
  LET query == [request.query EXCEPT !.completeOnly = Str(value)] IN
    \E rank \in Rankings(requestHits(request.param, query)) :
      response = getSearch(products, fts, request.param, query, rank)

\* C24: a GET /search/:term without the query parameter completeOnly is
\* answered as the same request with completeOnly=false (no filter on
\* complete_macros); a request with the parameter is filtered only when its
\* value is 'true'.
C24_AbsentMeansNoFilter ==
  [][searchHandled =>
       LET given == api'.req.query.completeOnly IN
         IF given = Undefined \/ given.s # TRUE_TEXT
         THEN respondsAs(api'.res, api'.req, FALSE_TEXT)
         ELSE respondsAs(api'.res, api'.req, TRUE_TEXT)]_vars

\* A search for "co" without completeOnly was answered with no row although
\* cola is stored and indexed.
C24_Witness ==
  /\ api.req.route = "search"
  /\ api.req.param = Str(<<"c", "o">>)
  /\ api.req.query = NoQueryParameters
  /\ api.res.status = 200
  /\ api.res.rows = <<>>
  /\ \E p \in products : p.id = Str(CodeY) /\ \E e \in fts : e.rowid = p.rowid

(***************************************************************************)
(* C26: the API runtime does not write                                     *)
(***************************************************************************)
\* A step of the API process: it starts, handles a request or sends the
\* response.
apiStep == api' # api

\* C26: no step of the API process (its start, a product lookup, a search, a
\* health check, valid or not) changes the Records, the Metadata or the
\* lexical index.
C26_ApiReadOnly ==
  [][apiStep => /\ products' = products
                /\ meta' = meta
                /\ fts' = fts
                /\ dbExists' = dbExists]_vars

\* A request was served over a store with Records, a watermark and an index.
C26_Witness ==
  /\ api.served
  /\ api.req.route = "search"
  /\ api.res.status = 200
  /\ api.res.rows # <<>>
  /\ products # {}
  /\ LAST_DELTA_KEY \in DOMAIN meta
  /\ fts # {}

(***************************************************************************)
(* C30: products.db is missing                                             *)
(***************************************************************************)
\* C30: while products.db is missing, no step of the API process or of
\* update.js creates it; the API process, once started, has exited with
\* status 1 and has served no request, and a run of update.js fails at once.
C30_MissingStoreIsFatal ==
  [][~dbExists =>
       /\ ~dbExists'
       /\ products' = {} /\ meta' = <<>> /\ fts' = {}
       /\ ~api'.served
       /\ api' # api => api'.pc = "exited" /\ api'.exitCode = 1
       /\ (u' # u /\ u.pc = "idle") => u'.pc = "failed"]_vars

\* The API process was started without products.db and has exited with
\* status 1, and update.js was run without it too.
C30_Witness ==
  /\ ~dbExists
  /\ api.pc = "exited"
  /\ api.exitCode = 1
  /\ ~api.served
  /\ runs > 0

(***************************************************************************)
(* C25: what search returns for a term                                     *)
(***************************************************************************)
\* search is called in this step with a term that is not blank and without
\* the completeness filter.
searchedUnfiltered ==
  q.n = 0 /\ q'.n = 1 /\ ~isBlank(q'.term) /\ q'.completeOnly = Bool(FALSE)

\* The whitespace-separated tokens of the term.
termTokens(term) == nonEmpty(split(term.s))

\* The text has a token that starts with the query token t, taken as it is.
hasTokenWithPrefix(text, t) ==
  \E i \in 1..Len(tokenize(text, <<>>)) : isPrefix(t, tokenize(text, <<>>)[i])

\* The text has the letter-and-digit parts of the query token t as
\* consecutive tokens, the last part as the start of a token.
hasPartsWithPrefix(text, t) == phraseIn([text |-> t, prefix |-> TRUE], text)

\* The Records the index holds.
indexed == {p \in products : \E e \in fts : e.rowid = p.rowid}

\* The answer is made of distinct Records of the set want, as many as the
\* limit allows, and no error was raised.
answers(out, want, limit) ==
  /\ ~out.threw
  /\ \A i \in 1..Len(out.rows) : out.rows[i] \in want
  /\ \A i, j \in 1..Len(out.rows) : i # j => out.rows[i] # out.rows[j]
  /\ Len(out.rows) = IF Cardinality(want) <= limit THEN Cardinality(want) ELSE limit

\* The limit search applies to the call.
appliedLimit(limit) == clamp(IF limit = Undefined THEN DEFAULT_LIMIT ELSE limit.n)

filterGiven ==
  /\ sem.call.kind = "search"
  /\ ~isBlank(sem.call.term)
  /\ sem.call.completeOnly \in {Bool(TRUE), Bool(FALSE)}

\* C23: a search with completeOnly = true raises no error and returns only
\* Records whose complete_macros is 1, and a search with completeOnly = false
\* raises no error either.
C23_FilterSupported ==
  filterGiven =>
    /\ ~sem.call.out.threw
    /\ sem.call.completeOnly = Bool(TRUE) =>
         \A i \in 1..Len(sem.call.out.rows) :
           sem.call.out.rows[i].complete_macros = Num(1)

\* A search for "co" with completeOnly = true raised an error.
C23_Witness ==
  /\ filterGiven
  /\ sem.call.term = Str(<<"c", "o">>)
  /\ sem.call.completeOnly = Bool(TRUE)
  /\ sem.call.out.threw

(***************************************************************************)
(* C27: semanticSearch when the embedder fails                             *)
(***************************************************************************)
\* C27: a semanticSearch whose call of the embedder fails returns the empty
\* result and raises no error.
C27_EmbedderFailureGivesEmpty ==
  (sem.call.kind = "semanticSearch" /\ sem.call.embedderFails) =>
    ~sem.call.out.threw /\ sem.call.out.rows = <<>>

\* A semanticSearch for "co" whose embedder failed raised the error.
C27_Witness ==
  /\ sem.call.kind = "semanticSearch"
  /\ sem.call.term = Str(<<"c", "o">>)
  /\ sem.call.embedderFails
  /\ sem.call.out.threw

(***************************************************************************)
(* C28: the embedding singleton                                            *)
(***************************************************************************)
\* The callers that hold a promise of getInstance().
holders == {c \in Callers : sem.callers[c].pc \in {"awaiting", "ready"}}

\* C28: however the calls of create() interleave with each other and with
\* the load, pipeline() is called at most once, every caller holds the
\* promise of that one load, and once the singleton holds an instance no call
\* replaces it or starts a load.
C28_LoadedOnce ==
  /\ [](/\ sem.loads <= 1
        /\ \A c \in holders : sem.callers[c].got = sem.instance
        /\ \A c, d \in holders : sem.callers[c].got = sem.callers[d].got)
  /\ [][sem.instance # NoInstance =>
          sem'.instance = sem.instance /\ sem'.loads = sem.loads]_vars

\* Two callers await the same load, which is still pending.
C28_Witness ==
  /\ sem.loads = 1
  /\ sem.settled = <<"pending">>
  /\ \A c \in Callers : sem.callers[c].pc = "awaiting" /\ sem.callers[c].got = 1

(***************************************************************************)
(* C29: the index the writers leave and the index a rebuild gives          *)
(***************************************************************************)
\* The rows the query of the call selects over the index a rebuild of the
\* present products table gives.
hitsRebuilt(term, completeOnly) ==
  IF isBlank(term) \/ ~parseQuery(ftsTermOf(term.s)).ok THEN {}
  ELSE hits(products, rebuild(products), parseQuery(ftsTermOf(term.s)).phrases,
            IF completeOnly = Undefined THEN TRUE ELSE Truthy(completeOnly))

\* C29: whatever the writers did to the store, a search returns over the
\* index they left a ranked sequence of the Records that the same search
\* selects over an index rebuilt from the products table.
C29_RebuildEquivalent ==
  [][(q.n = 0 /\ q'.n = 1) =>
       /\ q'.rank \in Rankings(hitsRebuilt(q'.term, q'.completeOnly))
       /\ q'.out = search(products, rebuild(products), q'.term, q'.limit,
                          q'.completeOnly, q'.rank)]_vars

\* A search for "co" without the filter returned nothing over the index the
\* delta synchronizer left, while cola is stored.
C29_Witness ==
  /\ q.n = 1
  /\ q.term = Str(<<"c", "o">>)
  /\ q.completeOnly = Bool(FALSE)
  /\ q.out.rows = <<>>
  /\ fts = {}
  /\ fts # rebuild(products)
  /\ \E p \in products : p.id = Str(CodeY)

(***************************************************************************)
(* C31: manifest lines that are no delta filename                          *)
(***************************************************************************)
\* The line is a delta filename: ..._<start>_<end>.json.gz
isDeltaName(line) == match(line).ok

\* The positions of the manifest whose line is a delta filename that ends
\* after w.
selectable(index, w) ==
  {i \in 1..Len(index) :
     isDeltaName(index[i]) /\ parseInt(match(index[i]).g2) > w}

\* C31: a run over a manifest with lines that are no delta filename is not
\* aborted; it fetches and applies exactly the lines that are delta filenames
\* with end > W, as many times as they occur, and the watermark it leaves is
\* the greatest end of those, or W when there is none.
C31_UnparsedEntriesDiscarded ==
  sel.ran =>
    \E chosen \in {selectable(sel.index, sel.lastTimestamp)} :
      \E ends \in {{parseInt(match(sel.index[i]).g2) : i \in chosen}} :
        /\ \A k \in 1..Len(sel.fetched) :
             \E i \in chosen : sel.index[i] = sel.fetched[k]
        /\ \A i \in chosen :
             Cardinality({k \in 1..Len(sel.fetched) : sel.fetched[k] = sel.index[i]})
               = Cardinality({j \in 1..Len(sel.index) : sel.index[j] = sel.index[i]})
        /\ \A i \in 1..Len(sel.index) :
             ~isDeltaName(sel.index[i]) =>
               \A k \in 1..Len(sel.fetched) : sel.fetched[k] # sel.index[i]
        /\ lastTimestampOf(meta) =
             IF ends = {} THEN sel.lastTimestamp
             ELSE CHOOSE e \in ends : \A f \in ends : f <= e

\* A run over the manifest <<d_a_300.json.gz, d_0_100.json.gz>> with no
\* watermark fetched d_0_100.json.gz only and left the watermark 100.
C31_Witness ==
  /\ sel.ran
  /\ sel.index = <<NoStart, D1>>
  /\ sel.lastTimestamp = 0
  /\ sel.fetched = <<D1>>
  /\ lastTimestampOf(meta) = 100
  /\ \E p \in products : p.id = Str(CodeX)

(***************************************************************************)
(* C32: search_text and raw_data of a Record                               *)
(***************************************************************************)
\* The text of a field of the line: nothing when the field is absent.
textOfField(v) == IF v.t = "string" THEN v.s ELSE <<>>

RECURSIVE tagsText(_)
\* The tags of a list, each separated from the one before by a space.
tagsText(tags) ==
  IF Len(tags) = 0 THEN <<>>
  ELSE IF Len(tags) = 1 THEN tags[1]
  ELSE tagsText(SubSeq(tags, 1, Len(tags) - 1)) \o <<" ">> \o tags[Len(tags)]

\* The text of a tag list of the line: nothing when the list is absent.
textOfTags(v) == IF v.t = "array" THEN tagsText(v.a) ELSE <<>>

\* The text with the part after it, separated by a space; an empty part is
\* left out.
withPart(text, part) ==
  IF part = <<>> THEN text
  ELSE IF text = <<>> THEN part
  ELSE text \o <<" ">> \o part

\* Name, brands, code, category tags and label tags of the decoded object p,
\* in this order.
expectedSearchText(p) ==
  withPart(withPart(withPart(withPart(textOfField(p.product_name),
                                      textOfField(p.brands)),
                             textOfField(p.code)),
                    textOfTags(p.categories_tags)),
           textOfTags(p.labels_tags))

\* C32: the search_text of every Record the transformer returns is the name,
\* the brands, the code, the category tags and the label tags of its line, in
\* this order, separated by single spaces, with the absent and the empty parts
\* left out; its raw_data is the line it was called with.
C32_SearchTextAndRawData ==
  (tr.n > 0 /\ tr.first # Null) =>
    /\ tr.first.search_text = Str(expectedSearchText(tr.line.p))
    /\ tr.first.raw_data = tr.line

\* The Record of a line with a name, brands, a code, two category tags and an
\* empty list of label tags: its search_text is "nut br 11 sp nut".
C32_Witness ==
  /\ tr.n > 0
  /\ tr.first # Null
  /\ tr.line.p.brands = Str(BR)
  /\ tr.line.p.categories_tags = Arr(<<SP, NUT>>)
  /\ tr.line.p.labels_tags = Arr(<<>>)
  /\ tr.first.search_text =
       Str(NUT \o <<" ">> \o BR \o <<" ">> \o CodeX \o <<" ">> \o SP \o <<" ">> \o NUT)
  /\ tr.first.raw_data = tr.line

(***************************************************************************)
(* C38: the macro nutrients of a complete Record                           *)
(***************************************************************************)
\* C38: the Record of a line the transformer judges complete (completeness
\* set to 1.0) has the four macro nutrients of the line, none of them null,
\* also when the line gives 0 for one.
C38_CompleteRecordKeepsMacros ==
  (tr.n > 0 /\ tr.first # Null /\ macrosComplete(tr.line.p)) =>
    /\ tr.first.completeness = Num(COMPLETENESS_FULL)
    /\ tr.first.energy_kcal = tr.line.p.nutriments.energy_kcal_100g
    /\ tr.first.fat_100g = tr.line.p.nutriments.fat_100g
    /\ tr.first.carbohydrates_100g = tr.line.p.nutriments.carbohydrates_100g
    /\ tr.first.proteins_100g = tr.line.p.nutriments.proteins_100g
    /\ Null \notin {tr.first.energy_kcal, tr.first.fat_100g,
                    tr.first.carbohydrates_100g, tr.first.proteins_100g}

\* The Record of a line with energy 5, fat 0, carbohydrates 6, proteins 1 and
\* completeness 1.0: its completeness is 1.0 and its fat is null.
C38_Witness ==
  /\ tr.n > 0
  /\ tr.first # Null
  /\ macrosComplete(tr.line.p)
  /\ tr.line.p.completeness = Num(10)
  /\ tr.line.p.nutriments.fat_100g = Num(0)
  /\ tr.first.completeness = Num(COMPLETENESS_FULL)
  /\ tr.first.fat_100g = Null
  /\ tr.first.energy_kcal = Num(5)

(***************************************************************************)
(* C33: the steps of the index rebuild                                     *)
(***************************************************************************)
\* The steps of rebuild-fts.js in order.
RebuildSteps == <<"drop", "create", "repopulate", "optimize", "vacuum">>

\* A statement of rebuild-fts.js ran, or threw, or the script started or
\* closed the store.
rebuildStep == rb' # rb

\* C33: the rebuild runs drop, recreate, repopulate, optimize and vacuum in
\* this order, and no step of it, a failing one included, changes a Record or
\* the Metadata; the optimize step leaves the index of the Records.
C33_RebuildStepsKeepRecords ==
  [][rebuildStep =>
       /\ products' = products
       /\ meta' = meta
       /\ rb'.done = SubSeq(RebuildSteps, 1, Len(rb'.done))
       /\ (Len(rb.done) = 3 /\ Len(rb'.done) = 4) => fts' = rebuild(products')]_vars

\* A rebuild over a store with records and a watermark dropped the table,
\* failed to create it again and closed the store: the records and the
\* watermark are there and products_fts is not.
C33_Witness ==
  /\ rb.pc = "closed"
  /\ rb.error
  /\ rb.done = <<"drop">>
  /\ ~rb.table
  /\ products # {}
  /\ LAST_DELTA_KEY \in DOMAIN meta
  /\ fts = {}

(***************************************************************************)
(* C34: shutdown of the server process                                     *)
(***************************************************************************)
\* The process ended in gracefulShutdown: both of its exits are exit(0).
shutDown == srv.pc = "exited" /\ srv.signals > 0 /\ srv.exitCode = 0

\* No request was answered through a closed handle, and the handle is closed
\* only once the server has stopped.
ClosedOnlyAfterStopped ==
  /\ ~srv.servedClosed
  /\ srv.handle = "closed" => srv.stopped

ShutdownAfterRequests ==
  /\ srv.version = "older"
  /\ shutDown
  /\ srv.signals = 2
  /\ srv.stopped
  /\ srv.handle = "closed"

(***************************************************************************)
(* C35: a load starts from nothing                                         *)
(***************************************************************************)
\* The load has started and has not ended.
loading == imp.pc # "idle"

\* update.js runs over a manifest for the first time since a load created
\* the store.
firstSyncAfterLoad == ~sel.ran /\ sel'.ran /\ runs > 0

\* The positions of the manifest whose line is a delta filename.
parseable(index) == {i \in 1..Len(index) : isDeltaName(index[i])}

\* C35: the start of a load leaves no Record and no Metadata entry; while it
\* runs every Record comes from a line of its source and there is no sync
\* watermark; and the first run of update.js after it reads the watermark 0
\* and selects every parseable entry of the manifest.
C35_LoadDestroysPriorState ==
  [][/\ (~loading /\ loading') => (products' = {} /\ meta' = <<>> /\ fts' = {})
     /\ loading' =>
          /\ LAST_DELTA_KEY \notin DOMAIN meta'
          /\ \A p \in products' :
               \E i \in 1..Len(imp'.source) : p.raw_data = imp'.source[i]
     /\ firstSyncAfterLoad =>
          /\ sel'.lastTimestamp = 0
          /\ Len(sel'.fetched) = Cardinality(parseable(sel'.index))
          /\ \A i \in parseable(sel'.index) :
               \E k \in 1..Len(sel'.fetched) : sel'.fetched[k] = sel'.index[i]]_vars

\* A load replaced a store with Records or Metadata, and the first run of
\* update.js after it read the watermark 0 and selected both deltas of the
\* manifest <<d_100_200.json.gz, d_0_100.json.gz>>.
C35_Witness ==
  /\ runs > 0
  /\ sel.ran
  /\ sel.replaced
  /\ sel.lastTimestamp = 0
  /\ sel.index = <<D2, D1>>
  /\ sel.fetched = <<D1, D2>>
  /\ lastTimestampOf(meta) = 200

(***************************************************************************)
(* C36: no selected delta is lost to a failure                             *)
(***************************************************************************)
\* Every valid line of the delta file has a record in the store: what a full
\* application of the file leaves, since no run deletes a record.
appliedOnce(filename) ==
  \A i \in 1..Len(DeltaLines(filename)) :
    transformProduct(DeltaLines(filename)[i]) # Null =>
      \E p \in products : p.id = transformProduct(DeltaLines(filename)[i]).id

\* The entries of the index that the killed run had selected and not applied
\* in full: the one it was processing and those that end after the watermark
\* it left.
owed(index) ==
  {i \in 1..Len(index) :
     /\ match(index[i]).ok
     /\ index[i] = hCrash.file \/ parseInt(match(index[i]).g2) > hCrash.w}

\* C36: when a run was killed while it processed a delta and the next run
\* over the same index completes without failure, the delta the killed run
\* was processing and every later one of the index have been applied in full,
\* also when an entry applied before the kill has the same end.
C36_NoSelectedDeltaLost ==
  (hCrash.set /\ u.pc = "done" /\ h.index = hCrash.index /\ h.failed = 0) =>
    \A i \in owed(h.index) : appliedOnce(h.index[i])

\* Over the index <<d_100_200.json.gz, e_150_200.json.gz>> a run applied the
\* first delta, wrote the watermark 200 and was killed in the second; the
\* next run over the same index has completed, and Z, which only the second
\* delta carries, is not stored.
C36_Witness ==
  /\ hCrash.set
  /\ hCrash.file = D3
  /\ hCrash.w = 200
  /\ hCrash.index = <<D2, D3>>
  /\ h.index = hCrash.index
  /\ u.pc = "done"
  /\ h.failed = 0
  /\ h.started = <<>>
  /\ watermark = 200
  /\ \E p \in products : p.id = Str(CodeY)
  /\ ~\E p \in products : p.id = Str(CodeZ)

(***************************************************************************)
(* C37: a run that finds nothing new                                       *)
(***************************************************************************)
\* No line of the index is a delta filename that ends after w.
nothingNew(index, w) ==
  \A i \in 1..Len(index) :
    match(index[i]).ok => parseInt(match(index[i]).g2) <= w

\* The run has made its selection.
selected == u.pc = "index" /\ u'.pc \in {"done", "download"}

\* A step of a run that selected nothing: its selection or its exit.
emptyRunStep ==
  \/ u.pc = "index" /\ u'.pc = "done"
  \/ u.pc = "done" /\ u.newDeltas = <<>> /\ u'.pc = "idle"

\* C37: a run that finds no entry of the index ending after the watermark
\* goes straight to its successful end, and neither its selection nor its
\* exit changes a Record, the index or the Metadata.
C37_NothingNewWritesNothing ==
  [][/\ selected => (u'.pc = "done" <=> nothingNew(h'.index, u.lastTimestamp))
     /\ emptyRunStep =>
          /\ products' = products
          /\ fts' = fts
          /\ meta' = meta
          /\ dbExists' = dbExists]_vars

\* A second run, started at the watermark 100 that a run over <<d_0_100.json.gz>>
\* left, has read the same index, selected nothing and reached its end; X is
\* stored and the watermark is 100.
C37_Witness ==
  /\ runs = 2
  /\ u.pc = "done"
  /\ u.lastTimestamp = 100
  /\ h.index = <<D1>>
  /\ u.newDeltas = <<>>
  /\ h.started = <<>>
  /\ watermark = 100
  /\ \E p \in products : p.id = Str(CodeX)

====
